---- MODULE Spec2Model ----
(***************************************************************************)
(* Dual BUY/SELL trading FSM, paper broker, P&L context and session        *)
(* manager of the BTCUSDT paper trader.                                    *)
(*                                                                         *)
(* Prices are fixed-point integers in units of HALF (0.5 price units), so  *)
(* savedLtp + 0.5 is savedLtp + HALF.  Money amounts that involve the      *)
(* average price are exact rationals <<num, den>>.  Timestamps are         *)
(* positive integers (epoch milliseconds), non-decreasing from tick to     *)
(* tick.                                                                   *)
(***************************************************************************)
EXTENDS Integers, Sequences, FiniteSets, TLC

VARIABLES sys, sm, shadow, lastOp

vars == <<sys, sm, shadow, lastOp>>

\* ------------------------------------------------------------------------
\* Bounds of the model
\* ------------------------------------------------------------------------
MaxPrice == 3

MaxTsSteps == 5

MaxSignals == 2

MaxTrades == 4

MaxAbsPnl == 1500

MaxSessionTrades == 2
\* Calls made on the P&L context when it is driven on its own.
MaxPnlCalls == 3
\* Largest order quantity passed to the P&L context when driven on its own.
MaxQty == 2
\* Trades recorded between two restarts.
MaxResumeTrades == 2
MaxWebhookTrades == 1
MaxWebhookTsSteps == 2
MaxLiveTrades == 1
MaxStartupTrades == 1
MaxStartupTsSteps == 2

\* ------------------------------------------------------------------------
\* Program constants
\* ------------------------------------------------------------------------
NULL == -1

WINDOW_MS == 60000

HALF == 1

ORDER_QTY == 1

HISTORY_MAX == 10

SESSION_TRADES_MAX == 50

DAILY_LOSS_LIMIT == -1000

\* Granularity of the tick timestamps the model feeds in.
TsStep == WINDOW_MS \div 2

Prices == 1..MaxPrice

TickTimes == {k * TsStep : k \in 1..MaxTsSteps}

LiveHorizon == MaxTsSteps * TsStep

LiveFloor == TsStep

Deltas == {-1000, -500, 0, 500, 1000}

TradeIds == {1, 2}

STATES == {"WAIT_FOR_SIGNAL", "BUYSIGNAL", "SELLSIGNAL", "BUYENTRY_WINDOW",
           "SELLENTRY_WINDOW", "BUYPROFIT_WINDOW", "SELLPROFIT_WINDOW",
           "WAIT_WINDOW", "WAIT_FOR_BUYENTRY", "WAIT_FOR_SELLENTRY"}

NoPosition == [side |-> "null", qty |-> 0, entryPrice |-> NULL, stop |-> NULL]

NoTick == [ltp |-> NULL, ts |-> NULL]

\* ------------------------------------------------------------------------
\* Exact rational arithmetic (JS numbers on the values the model uses)
\* ------------------------------------------------------------------------
Abs(x) == IF x < 0 THEN -x ELSE x

RECURSIVE Gcd(_, _)
Gcd(a, b) == IF b = 0 THEN a ELSE Gcd(b, a % b)

Rat(n, d) ==
  LET g == Gcd(Abs(n), Abs(d))
      s == IF d < 0 THEN -1 ELSE 1
  IN  IF n = 0 THEN <<0, 1>> ELSE <<(s * n) \div g, (s * d) \div g>>

RInt(n) == <<n, 1>>

RAdd(a, b) == Rat(a[1] * b[2] + b[1] * a[2], a[2] * b[2])

RSub(a, b) == Rat(a[1] * b[2] - b[1] * a[2], a[2] * b[2])

RMulInt(a, k) == Rat(a[1] * k, a[2])

RDivInt(a, k) == Rat(a[1], a[2] * k)

\* ------------------------------------------------------------------------
\* Strings as character sequences, for String.prototype.includes
\* ------------------------------------------------------------------------
Chars ==
  [ BUYENTRY_TRIGGER_HIT |->
      <<"B","U","Y","E","N","T","R","Y","_","T","R","I","G","G","E","R","_","H","I","T">>,
    SELLENTRY_TRIGGER_HIT |->
      <<"S","E","L","L","E","N","T","R","Y","_","T","R","I","G","G","E","R","_","H","I","T">>,
    WAIT_FOR_BUYENTRY_TRIGGER_HIT |->
      <<"W","A","I","T","_","F","O","R","_","B","U","Y","E","N","T","R","Y","_",
        "T","R","I","G","G","E","R","_","H","I","T">>,
    WAIT_FOR_SELLENTRY_TRIGGER_HIT |->
      <<"W","A","I","T","_","F","O","R","_","S","E","L","L","E","N","T","R","Y","_",
        "T","R","I","G","G","E","R","_","H","I","T">>,
    BUYPROFIT_STOP_HIT |->
      <<"B","U","Y","P","R","O","F","I","T","_","S","T","O","P","_","H","I","T">>,
    SELLPROFIT_STOP_HIT |->
      <<"S","E","L","L","P","R","O","F","I","T","_","S","T","O","P","_","H","I","T">>,
    MANUAL_OVERRIDE |->
      <<"M","A","N","U","A","L","_","O","V","E","R","R","I","D","E">>,
    OPEN_LONG |-> <<"O","P","E","N","_","L","O","N","G">>,
    CLOSE_LONG |-> <<"C","L","O","S","E","_","L","O","N","G">>,
    OPEN_SHORT |-> <<"O","P","E","N","_","S","H","O","R","T">>,
    CLOSE_SHORT |-> <<"C","L","O","S","E","_","S","H","O","R","T">>,
    BUYENTRY_WINDOW |->
      <<"B","U","Y","E","N","T","R","Y","_","W","I","N","D","O","W">>,
    SELLENTRY_WINDOW |->
      <<"S","E","L","L","E","N","T","R","Y","_","W","I","N","D","O","W">>,
    BUYPROFIT_WINDOW |->
      <<"B","U","Y","P","R","O","F","I","T","_","W","I","N","D","O","W">>,
    SELLPROFIT_WINDOW |->
      <<"S","E","L","L","P","R","O","F","I","T","_","W","I","N","D","O","W">>,
    TRIGGER_HIT |-> <<"T","R","I","G","G","E","R","_","H","I","T">>,
    STOP_HIT |-> <<"S","T","O","P","_","H","I","T">>,
    OPEN |-> <<"O","P","E","N">>,
    CLOSE |-> <<"C","L","O","S","E">>,
    BUY |-> <<"B","U","Y">> ]

includes(str, sub) ==
  LET s == Chars[str]
      t == Chars[sub]
  IN  \E i \in 0..(Len(s) - Len(t)) :
        \A j \in 1..Len(t) : s[i + j] = t[j]

\* ------------------------------------------------------------------------
\* P&L context (pnlContext.js): one aggregated position
\* ------------------------------------------------------------------------
updateMarkPrice(w, price) == [w EXCEPT !.lastPrice = price]

\* openPosition that keeps the side of a position already held.
openPosition_KeepSide(w, side, qty, price, reason) ==
  LET c == [w EXCEPT !.pnlCalls =
              Append(@, [op |-> "openPosition", side |-> side, qty |-> qty,
                         price |-> price])]
      totalCost == RAdd(RMulInt(w.avgPrice, w.positionQty), RInt(price * qty))
      newQty == w.positionQty + qty
  IN  IF side \in {"BUY", "SELL"}
      THEN [c EXCEPT
              !.positionQty = newQty,
              !.avgPrice = IF newQty > 0 THEN RDivInt(totalCost, newQty)
                           ELSE RInt(0),
              !.positionSide = IF w.positionSide # "null" THEN w.positionSide
                               ELSE IF side = "BUY" THEN "LONG" ELSE "SHORT",
              !.tradeCount = @ + 1,
              !.trades = Append(@, [type |-> "OPEN", side |-> side,
                                    qty |-> qty, price |-> price,
                                    pnl |-> <<>>, reason |-> reason])]
      ELSE c

openPosition(w, side, qty, price, reason) ==
  LET c == [w EXCEPT !.pnlCalls =
              Append(@, [op |-> "openPosition", side |-> side, qty |-> qty,
                         price |-> price])]
      totalCost == RAdd(RMulInt(w.avgPrice, w.positionQty), RInt(price * qty))
      newQty == w.positionQty + qty
  IN  IF side \in {"BUY", "SELL"}
      THEN [c EXCEPT
              !.positionQty = newQty,
              !.avgPrice = IF newQty > 0 THEN RDivInt(totalCost, newQty)
                           ELSE RInt(0),
              !.positionSide = IF side = "BUY" THEN "LONG" ELSE "SHORT",
              !.tradeCount = @ + 1,
              !.trades = Append(@, [type |-> "OPEN", side |-> side,
                                    qty |-> qty, price |-> price,
                                    pnl |-> <<>>, reason |-> reason])]
      ELSE c

\* closePosition without the clamp of qty to positionQty.
closePosition_NoClamp(w, side, qtyArg, price, reason) ==
  LET c == [w EXCEPT !.pnlCalls =
              Append(@, [op |-> "closePosition", side |-> side,
                         qty |-> qtyArg, price |-> price])]
      qty == qtyArg
      pnl == IF side = "SELL"
             THEN RMulInt(RSub(RInt(price), w.avgPrice), qty)
             ELSE RMulInt(RSub(w.avgPrice, RInt(price)), qty)
      left == w.positionQty - qty
  IN  IF \/ side = "SELL" /\ w.positionSide = "LONG"
         \/ side = "BUY" /\ w.positionSide = "SHORT"
      THEN [c EXCEPT
              !.realizedPnl = RAdd(@, pnl),
              !.positionQty = IF left <= 0 THEN 0 ELSE left,
              !.avgPrice = IF left <= 0 THEN RInt(0) ELSE @,
              !.positionSide = IF left <= 0 THEN "null" ELSE @,
              !.tradeCount = @ + 1,
              !.trades = Append(@, [type |-> "CLOSE", side |-> side,
                                    qty |-> qty, price |-> price,
                                    pnl |-> pnl, reason |-> reason])]
      ELSE c

closePosition(w, side, qtyArg, price, reason) ==
  LET c == [w EXCEPT !.pnlCalls =
              Append(@, [op |-> "closePosition", side |-> side,
                         qty |-> qtyArg, price |-> price])]
      qty == IF qtyArg > w.positionQty THEN w.positionQty ELSE qtyArg
      pnl == IF side = "SELL"
             THEN RMulInt(RSub(RInt(price), w.avgPrice), qty)
             ELSE RMulInt(RSub(w.avgPrice, RInt(price)), qty)
      left == w.positionQty - qty
  IN  IF \/ side = "SELL" /\ w.positionSide = "LONG"
         \/ side = "BUY" /\ w.positionSide = "SHORT"
      THEN [c EXCEPT
              !.realizedPnl = RAdd(@, pnl),
              !.positionQty = IF left <= 0 THEN 0 ELSE left,
              !.avgPrice = IF left <= 0 THEN RInt(0) ELSE @,
              !.positionSide = IF left <= 0 THEN "null" ELSE @,
              !.tradeCount = @ + 1,
              !.trades = Append(@, [type |-> "CLOSE", side |-> side,
                                    qty |-> qty, price |-> price,
                                    pnl |-> pnl, reason |-> reason])]
      ELSE c

\* ------------------------------------------------------------------------
\* Paper broker (paperBroker.js): classifies an order by meta.reason
\* ------------------------------------------------------------------------
placeLimitBuy(w, qty, price, reason) ==
  LET o == [w EXCEPT !.orders =
              Append(@, [fn |-> "placeLimitBuy", qty |-> qty, price |-> price,
                         reason |-> reason])]
      isOpening == includes(reason, "TRIGGER_HIT") \/ includes(reason, "OPEN")
  IN  IF isOpening
      THEN openPosition(o, "BUY", qty, price, reason)
      ELSE closePosition(o, "BUY", qty, price, reason)

placeLimitSell(w, qty, price, reason) ==
  LET o == [w EXCEPT !.orders =
              Append(@, [fn |-> "placeLimitSell", qty |-> qty, price |-> price,
                         reason |-> reason])]
      isClosing == includes(reason, "STOP_HIT") \/ includes(reason, "CLOSE")
  IN  IF isClosing
      THEN closePosition(o, "SELL", qty, price, reason)
      ELSE openPosition(o, "SELL", qty, price, reason)

\* ------------------------------------------------------------------------
\* Dual FSM (fsm.js)
\* ------------------------------------------------------------------------
transitionTo(w, side, next) ==
  IF side = "BUY" THEN [w EXCEPT !.buyState = next]
                  ELSE [w EXCEPT !.sellState = next]

longIsOpen(w) == w.longPosition # NoPosition /\ w.longPosition.qty > 0

shortIsOpen(w) == w.shortPosition # NoPosition /\ w.shortPosition.qty > 0

computeOrderQty(price) == ORDER_QTY

\* openLong without its already-open guard.
openLong_NoGuard(w, price, ts, reason) ==
  LET qty == computeOrderQty(price)
      b == placeLimitBuy(w, qty, price,
                         IF reason = "null" THEN "OPEN_LONG" ELSE reason)
  IN  [b EXCEPT !.longPosition =
         [side |-> "LONG", qty |-> qty, entryPrice |-> price, stop |-> NULL]]

\* openLong that also refuses while the short position is held.
openLong_RefuseWhenShort(w, price, ts, reason) ==
  IF longIsOpen(w) \/ shortIsOpen(w) THEN w
  ELSE LET qty == computeOrderQty(price)
           b == placeLimitBuy(w, qty, price,
                              IF reason = "null" THEN "OPEN_LONG" ELSE reason)
       IN  [b EXCEPT !.longPosition =
              [side |-> "LONG", qty |-> qty, entryPrice |-> price,
               stop |-> NULL]]

openLong(w, price, ts, reason) ==
  IF longIsOpen(w) THEN w
  ELSE LET qty == computeOrderQty(price)
           b == placeLimitBuy(w, qty, price,
                              IF reason = "null" THEN "OPEN_LONG" ELSE reason)
       IN  [b EXCEPT !.longPosition =
              [side |-> "LONG", qty |-> qty, entryPrice |-> price,
               stop |-> NULL]]

closeLong(w, price, ts, reason) ==
  IF ~longIsOpen(w) THEN w
  ELSE LET b == placeLimitSell(w, w.longPosition.qty, price,
                               IF reason = "null" THEN "CLOSE_LONG" ELSE reason)
       IN  [b EXCEPT !.longPosition = NoPosition]

openShort(w, price, ts, reason) ==
  IF shortIsOpen(w) THEN w
  ELSE LET qty == computeOrderQty(price)
           b == placeLimitSell(w, qty, price,
                               IF reason = "null" THEN "OPEN_SHORT" ELSE reason)
       IN  [b EXCEPT !.shortPosition =
              [side |-> "SHORT", qty |-> qty, entryPrice |-> price,
               stop |-> NULL]]

closeShort(w, price, ts, reason) ==
  IF ~shortIsOpen(w) THEN w
  ELSE LET b == placeLimitBuy(w, w.shortPosition.qty, price,
                              IF reason = "null" THEN "CLOSE_SHORT" ELSE reason)
       IN  [b EXCEPT !.shortPosition = NoPosition]

sideOf(source) == IF includes(source, "BUY") THEN "BUY" ELSE "SELL"

\* finishWaitWindow that forgets the side's anchors when it resolves.
finishWaitWindow_ClearAnchors(w, nowStateSource, ts) ==
  LET side == sideOf(nowStateSource)
      t == IF ts # NULL THEN ts ELSE w.lastTick.ts
      n == CASE nowStateSource = "BUYENTRY_WINDOW" ->
                  transitionTo([w EXCEPT !.buyEntryFirstTickPending = TRUE,
                                         !.savedBUYLTP = NULL,
                                         !.buyEntryTrigger = NULL,
                                         !.buyStop = NULL],
                               side, "BUYENTRY_WINDOW")
             [] nowStateSource = "SELLENTRY_WINDOW" ->
                  transitionTo([w EXCEPT !.sellEntryFirstTickPending = TRUE,
                                         !.savedSELLLTP = NULL,
                                         !.sellEntryTrigger = NULL,
                                         !.sellStop = NULL],
                               side, "SELLENTRY_WINDOW")
             [] nowStateSource = "BUYPROFIT_WINDOW" ->
                  transitionTo([w EXCEPT !.waitForBuyEntryStartTs = t,
                                         !.waitForBuyEntryFirstTickSeen = FALSE],
                               side, "WAIT_FOR_BUYENTRY")
             [] nowStateSource = "SELLPROFIT_WINDOW" ->
                  transitionTo([w EXCEPT !.waitForSellEntryStartTs = t,
                                         !.waitForSellEntryFirstTickSeen = FALSE],
                               side, "WAIT_FOR_SELLENTRY")
             [] OTHER -> transitionTo(w, side, "WAIT_FOR_SIGNAL")
  IN  [n EXCEPT !.waitWindowStartTs = NULL,
                !.waitWindowDurationMs = NULL,
                !.waitWindowSource = "null"]

finishWaitWindow(w, nowStateSource, ts) ==
  LET side == sideOf(nowStateSource)
      t == IF ts # NULL THEN ts ELSE w.lastTick.ts
      n == CASE nowStateSource = "BUYENTRY_WINDOW" ->
                  transitionTo([w EXCEPT !.buyEntryFirstTickPending = TRUE],
                               side, "BUYENTRY_WINDOW")
             [] nowStateSource = "SELLENTRY_WINDOW" ->
                  transitionTo([w EXCEPT !.sellEntryFirstTickPending = TRUE],
                               side, "SELLENTRY_WINDOW")
             [] nowStateSource = "BUYPROFIT_WINDOW" ->
                  transitionTo([w EXCEPT !.waitForBuyEntryStartTs = t,
                                         !.waitForBuyEntryFirstTickSeen = FALSE],
                               side, "WAIT_FOR_BUYENTRY")
             [] nowStateSource = "SELLPROFIT_WINDOW" ->
                  transitionTo([w EXCEPT !.waitForSellEntryStartTs = t,
                                         !.waitForSellEntryFirstTickSeen = FALSE],
                               side, "WAIT_FOR_SELLENTRY")
             [] OTHER -> transitionTo(w, side, "WAIT_FOR_SIGNAL")
  IN  [n EXCEPT !.waitWindowStartTs = NULL,
                !.waitWindowDurationMs = NULL,
                !.waitWindowSource = "null"]

enterWaitWindow(w, remainingMs, source, tickTs) ==
  LET duration == IF remainingMs > 0 THEN remainingMs ELSE 0
  IN  IF duration <= 0
      THEN finishWaitWindow(w, source, tickTs)
      ELSE transitionTo([w EXCEPT !.waitWindowStartTs = tickTs,
                                  !.waitWindowDurationMs = duration,
                                  !.waitWindowSource = source],
                        sideOf(source), "WAIT_WINDOW")

pushHistory(h, side, state) ==
  LET u == <<[side |-> side, state |-> state]>> \o h
  IN  IF Len(u) > HISTORY_MAX THEN SubSeq(u, 1, Len(u) - 1) ELSE u

\* onBuySignal that moves the other side's state.
onBuySignal_WrongSide(w) ==
  transitionTo([w EXCEPT !.buySignalFirstTickPending = TRUE,
                         !.signalHistory = pushHistory(@, "BUY", w.buyState)],
               "SELL", "BUYSIGNAL")

onBuySignal(w) ==
  transitionTo([w EXCEPT !.buySignalFirstTickPending = TRUE,
                         !.signalHistory = pushHistory(@, "BUY", w.buyState)],
               "BUY", "BUYSIGNAL")

onSellSignal(w) ==
  transitionTo([w EXCEPT !.sellSignalFirstTickPending = TRUE,
                         !.signalHistory = pushHistory(@, "SELL", w.sellState)],
               "SELL", "SELLSIGNAL")

\* handleBuySignalTick with the stop placed at the saved price itself.
handleBuySignalTick_StopAtLtp(w, tick) ==
  IF ~w.buySignalFirstTickPending THEN w
  ELSE transitionTo([w EXCEPT !.savedBUYLTP = tick.ltp,
                              !.buyEntryTrigger = tick.ltp + HALF,
                              !.buyStop = tick.ltp,
                              !.buyEntryWindowStartTs = tick.ts,
                              !.buySignalFirstTickPending = FALSE,
                              !.buyEntryFirstTickPending = TRUE],
                    "BUY", "BUYENTRY_WINDOW")

handleBuySignalTick(w, tick) ==
  IF ~w.buySignalFirstTickPending THEN w
  ELSE transitionTo([w EXCEPT !.savedBUYLTP = tick.ltp,
                              !.buyEntryTrigger = tick.ltp + HALF,
                              !.buyStop = tick.ltp - HALF,
                              !.buyEntryWindowStartTs = tick.ts,
                              !.buySignalFirstTickPending = FALSE,
                              !.buyEntryFirstTickPending = TRUE],
                    "BUY", "BUYENTRY_WINDOW")

\* handleSellSignalTick that leaves the entry window's first-tick flag alone.
handleSellSignalTick_NoEntryFlag(w, tick) ==
  IF ~w.sellSignalFirstTickPending THEN w
  ELSE transitionTo([w EXCEPT !.savedSELLLTP = tick.ltp,
                              !.sellEntryTrigger = tick.ltp - HALF,
                              !.sellStop = tick.ltp + HALF,
                              !.sellEntryWindowStartTs = tick.ts,
                              !.sellSignalFirstTickPending = FALSE],
                    "SELL", "SELLENTRY_WINDOW")

handleSellSignalTick(w, tick) ==
  IF ~w.sellSignalFirstTickPending THEN w
  ELSE transitionTo([w EXCEPT !.savedSELLLTP = tick.ltp,
                              !.sellEntryTrigger = tick.ltp - HALF,
                              !.sellStop = tick.ltp + HALF,
                              !.sellEntryWindowStartTs = tick.ts,
                              !.sellSignalFirstTickPending = FALSE,
                              !.sellEntryFirstTickPending = TRUE],
                    "SELL", "SELLENTRY_WINDOW")

\* JS relational comparison coerces null to 0.
num(x) == IF x = NULL THEN 0 ELSE x

setLongStop(w, stop) ==
  IF w.longPosition = NoPosition THEN [w EXCEPT !.threw = TRUE]
  ELSE [w EXCEPT !.longPosition.stop = stop]

setShortStop(w, stop) ==
  IF w.shortPosition = NoPosition THEN [w EXCEPT !.threw = TRUE]
  ELSE [w EXCEPT !.shortPosition.stop = stop]

handleBuyEntryWindowTick(w, tick) ==
  IF ~w.buyEntryFirstTickPending THEN w
  ELSE
    LET c == [w EXCEPT !.buyEntryFirstTickPending = FALSE]
        elapsed == IF w.buyEntryWindowStartTs # NULL
                   THEN tick.ts - w.buyEntryWindowStartTs ELSE 0
        remainingMs == WINDOW_MS - elapsed
    IN  IF tick.ltp >= num(w.buyEntryTrigger)
        THEN LET o == setLongStop(openLong(c, tick.ltp, tick.ts,
                                           "BUYENTRY_TRIGGER_HIT"), c.buyStop)
             IN  transitionTo([o EXCEPT !.buyProfitWindowStartTs = tick.ts],
                              "BUY", "BUYPROFIT_WINDOW")
        ELSE enterWaitWindow(c, remainingMs, "BUYENTRY_WINDOW", tick.ts)

handleSellEntryWindowTick(w, tick) ==
  IF ~w.sellEntryFirstTickPending THEN w
  ELSE
    LET c == [w EXCEPT !.sellEntryFirstTickPending = FALSE]
        elapsed == IF w.sellEntryWindowStartTs # NULL
                   THEN tick.ts - w.sellEntryWindowStartTs ELSE 0
        remainingMs == WINDOW_MS - elapsed
    IN  IF tick.ltp <= num(w.sellEntryTrigger)
        THEN LET o == setShortStop(openShort(c, tick.ltp, tick.ts,
                                             "SELLENTRY_TRIGGER_HIT"), c.sellStop)
             IN  transitionTo([o EXCEPT !.sellProfitWindowStartTs = tick.ts],
                              "SELL", "SELLPROFIT_WINDOW")
        ELSE enterWaitWindow(c, remainingMs, "SELLENTRY_WINDOW", tick.ts)

\* handleBuyProfitWindowTick that closes on a stop hit and stays in the state.
handleBuyProfitWindowTick_StayOnStop(w, tick) ==
  IF ~longIsOpen(w) THEN w
  ELSE
    LET stop == IF w.longPosition.stop # NULL THEN w.longPosition.stop
                ELSE w.buyStop
    IN  IF tick.ltp <= num(stop)
        THEN closeLong(w, tick.ltp, tick.ts, "BUYPROFIT_STOP_HIT")
        ELSE w

handleBuyProfitWindowTick(w, tick) ==
  IF ~longIsOpen(w) THEN w
  ELSE
    LET stop == IF w.longPosition.stop # NULL THEN w.longPosition.stop
                ELSE w.buyStop
        elapsed == IF w.buyProfitWindowStartTs # NULL
                   THEN tick.ts - w.buyProfitWindowStartTs ELSE 0
    IN  IF tick.ltp <= num(stop)
        THEN enterWaitWindow(closeLong(w, tick.ltp, tick.ts, "BUYPROFIT_STOP_HIT"),
                             WINDOW_MS - elapsed, "BUYPROFIT_WINDOW", tick.ts)
        ELSE IF elapsed >= WINDOW_MS
             THEN [w EXCEPT !.buyProfitWindowStartTs = tick.ts]
             ELSE w

handleSellProfitWindowTick(w, tick) ==
  IF ~shortIsOpen(w) THEN w
  ELSE
    LET stop == IF w.shortPosition.stop # NULL THEN w.shortPosition.stop
                ELSE w.sellStop
        elapsed == IF w.sellProfitWindowStartTs # NULL
                   THEN tick.ts - w.sellProfitWindowStartTs ELSE 0
    IN  IF tick.ltp >= num(stop)
        THEN enterWaitWindow(closeShort(w, tick.ltp, tick.ts, "SELLPROFIT_STOP_HIT"),
                             WINDOW_MS - elapsed, "SELLPROFIT_WINDOW", tick.ts)
        ELSE IF elapsed >= WINDOW_MS
             THEN [w EXCEPT !.sellProfitWindowStartTs = tick.ts]
             ELSE w

\* !x on a timestamp: null or 0
falsyTs(x) == x = NULL \/ x = 0

handleWaitWindowTick(w, tick) ==
  IF \/ falsyTs(w.waitWindowStartTs)
     \/ w.waitWindowDurationMs = NULL
     \/ w.waitWindowSource = "null"
  THEN w
  ELSE IF tick.ts - w.waitWindowStartTs >= w.waitWindowDurationMs
       THEN finishWaitWindow([w EXCEPT !.waitWindowStartTs = NULL,
                                       !.waitWindowDurationMs = NULL,
                                       !.waitWindowSource = "null"],
                             w.waitWindowSource, tick.ts)
       ELSE w

handleWaitForBuyEntryTick(w, tick) ==
  LET a == IF falsyTs(w.waitForBuyEntryStartTs)
           THEN [w EXCEPT !.waitForBuyEntryStartTs = tick.ts] ELSE w
      elapsed == tick.ts - a.waitForBuyEntryStartTs
      seen == [a EXCEPT !.waitForBuyEntryFirstTickSeen = TRUE]
      restart(x) == IF elapsed >= WINDOW_MS
                    THEN [x EXCEPT !.waitForBuyEntryStartTs = tick.ts,
                                   !.waitForBuyEntryFirstTickSeen = FALSE]
                    ELSE x
  IN  IF ~a.waitForBuyEntryFirstTickSeen
      THEN IF tick.ltp >= num(a.buyEntryTrigger)
           THEN LET o == setLongStop(openLong(seen, tick.ltp, tick.ts,
                                              "WAIT_FOR_BUYENTRY_TRIGGER_HIT"),
                                     a.buyStop)
                IN  transitionTo([o EXCEPT !.buyProfitWindowStartTs = tick.ts],
                                 "BUY", "BUYPROFIT_WINDOW")
           ELSE restart(seen)
      ELSE restart(a)

handleWaitForSellEntryTick(w, tick) ==
  LET a == IF falsyTs(w.waitForSellEntryStartTs)
           THEN [w EXCEPT !.waitForSellEntryStartTs = tick.ts] ELSE w
      elapsed == tick.ts - a.waitForSellEntryStartTs
      seen == [a EXCEPT !.waitForSellEntryFirstTickSeen = TRUE]
      restart(x) == IF elapsed >= WINDOW_MS
                    THEN [x EXCEPT !.waitForSellEntryStartTs = tick.ts,
                                   !.waitForSellEntryFirstTickSeen = FALSE]
                    ELSE x
  IN  IF ~a.waitForSellEntryFirstTickSeen
      THEN IF tick.ltp <= num(a.sellEntryTrigger)
           THEN LET o == setShortStop(openShort(seen, tick.ltp, tick.ts,
                                                "WAIT_FOR_SELLENTRY_TRIGGER_HIT"),
                                      a.sellStop)
                IN  transitionTo([o EXCEPT !.sellProfitWindowStartTs = tick.ts],
                                 "SELL", "SELLPROFIT_WINDOW")
           ELSE restart(seen)
      ELSE restart(a)

buySideTick(w, tick) ==
  CASE w.buyState = "BUYSIGNAL" -> handleBuySignalTick(w, tick)
    [] w.buyState = "BUYENTRY_WINDOW" -> handleBuyEntryWindowTick(w, tick)
    [] w.buyState = "BUYPROFIT_WINDOW" -> handleBuyProfitWindowTick(w, tick)
    [] w.buyState = "WAIT_FOR_BUYENTRY" -> handleWaitForBuyEntryTick(w, tick)
    [] OTHER -> w

sellSideTick(w, tick) ==
  CASE w.sellState = "SELLSIGNAL" -> handleSellSignalTick(w, tick)
    [] w.sellState = "SELLENTRY_WINDOW" -> handleSellEntryWindowTick(w, tick)
    [] w.sellState = "SELLPROFIT_WINDOW" -> handleSellProfitWindowTick(w, tick)
    [] w.sellState = "WAIT_FOR_SELLENTRY" -> handleWaitForSellEntryTick(w, tick)
    [] OTHER -> w

\* The statements of onTick run in sequence, each on the state the previous
\* one left: l after lastTick = tick, b after the BUY switch, s after the SELL
\* switch.
\*
\* onTick_SellFirst is onTick with the SELL switch run before the BUY switch.
onTick_SellFirst(w, tick) ==
  CHOOSE r \in
    { IF s.waitWindowSource # "null" THEN handleWaitWindowTick(s, tick) ELSE s :
        s \in { buySideTick(b, tick) :
                 b \in { sellSideTick(l, tick) :
                          l \in {[w EXCEPT !.lastTick = tick]} } } } : TRUE

onTick(w, tick) ==
  CHOOSE r \in
    { IF s.waitWindowSource # "null" THEN handleWaitWindowTick(s, tick) ELSE s :
        s \in { sellSideTick(b, tick) :
                 b \in { buySideTick(l, tick) :
                          l \in {[w EXCEPT !.lastTick = tick]} } } } : TRUE

\* manualCloseAll that resets both sides whether or not a tick was seen.
manualCloseAll_AlwaysReset(w) ==
  [transitionTo(transitionTo(w, "BUY", "WAIT_FOR_SIGNAL"),
                "SELL", "WAIT_FOR_SIGNAL")
     EXCEPT !.buyEntryWindowStartTs = NULL,
            !.sellEntryWindowStartTs = NULL,
            !.buyProfitWindowStartTs = NULL,
            !.sellProfitWindowStartTs = NULL,
            !.waitWindowStartTs = NULL,
            !.waitForBuyEntryStartTs = NULL,
            !.waitForSellEntryStartTs = NULL]

manualCloseAll(w) ==
  IF w.lastTick = NoTick THEN w
  ELSE
    LET ltp == w.lastTick.ltp
        ts == w.lastTick.ts
        l == IF longIsOpen(w) THEN closeLong(w, ltp, ts, "MANUAL_OVERRIDE") ELSE w
        s == IF shortIsOpen(l) THEN closeShort(l, ltp, ts, "MANUAL_OVERRIDE") ELSE l
        closed == longIsOpen(w) \/ shortIsOpen(l)
    IN  IF closed
        THEN [transitionTo(transitionTo(s, "BUY", "WAIT_FOR_SIGNAL"),
                           "SELL", "WAIT_FOR_SIGNAL")
                EXCEPT !.buyEntryWindowStartTs = NULL,
                       !.sellEntryWindowStartTs = NULL,
                       !.buyProfitWindowStartTs = NULL,
                       !.sellProfitWindowStartTs = NULL,
                       !.waitWindowStartTs = NULL,
                       !.waitForBuyEntryStartTs = NULL,
                       !.waitForSellEntryStartTs = NULL]
        ELSE s

\* Market stream callback of index.js: mark price first, then the FSM.
marketTick(w, tick) == onTick(updateMarkPrice(w, tick.ltp), tick)

\* ------------------------------------------------------------------------
\* Session manager (sessionState.js)
\* ------------------------------------------------------------------------
\* checkGate that opens at a cumulative paper P&L of zero.
checkGate_AtZero(st) ==
  IF st.mode = "PAPER" /\ st.paperCumulativePnL >= 0
  THEN [st EXCEPT !.mode = "LIVE", !.liveCumulativePnL = 0]
  ELSE st

checkGate(st) ==
  IF st.mode = "PAPER" /\ st.paperCumulativePnL > 0
  THEN [st EXCEPT !.mode = "LIVE", !.liveCumulativePnL = 0]
  ELSE st

\* checkRiskFlags that raises the daily stop but stays in LIVE mode.
checkRiskFlags_KeepLive(st) ==
  IF st.mode = "LIVE" /\ st.liveCumulativePnL < 0
  THEN [st EXCEPT !.dailyStopActive = TRUE]
  ELSE st

checkRiskFlags(st) ==
  IF st.mode = "LIVE" /\ st.liveCumulativePnL < 0
  THEN [st EXCEPT !.mode = "PAPER", !.dailyStopActive = TRUE]
  ELSE st

\* checkDailyStop that trips only strictly below the limit.
checkDailyStop_Strict(st) ==
  IF st.dailyRealisedPnL < st.dailyLossLimit
  THEN [st EXCEPT !.dailyStopActive = TRUE]
  ELSE st

checkDailyStop(st) ==
  IF st.dailyRealisedPnL <= st.dailyLossLimit
  THEN [st EXCEPT !.dailyStopActive = TRUE]
  ELSE st

\* updatePaperPnL without the mode guard.
updatePaperPnL_AnyMode(st, pnl) ==
  checkGate([st EXCEPT !.paperCumulativePnL = @ + pnl])

updatePaperPnL(st, pnl) ==
  IF st.mode # "PAPER" THEN st
  ELSE checkGate([st EXCEPT !.paperCumulativePnL = @ + pnl])

updateLivePnL(st, pnl) ==
  IF st.mode # "LIVE" THEN st
  ELSE checkDailyStop(checkRiskFlags(
         [st EXCEPT !.liveCumulativePnL = @ + pnl,
                    !.totalLiveRealisedPnL = @ + pnl,
                    !.dailyRealisedPnL = @ + pnl]))

resetDailyStats(st) ==
  [st EXCEPT !.dailyRealisedPnL = 0, !.dailyStopActive = FALSE]

addTrade(st, trade) ==
  LET u == <<trade>> \o st.trades
  IN  [st EXCEPT !.trades = IF Len(u) > SESSION_TRADES_MAX
                            THEN SubSeq(u, 1, Len(u) - 1) ELSE u]

\* ------------------------------------------------------------------------
\* Initial state: createFSM, createPnlContext, new SessionManager(-1000)
\* ------------------------------------------------------------------------
InitSys ==
  [ buyState |-> "WAIT_FOR_SIGNAL", sellState |-> "WAIT_FOR_SIGNAL",
    savedBUYLTP |-> NULL, savedSELLLTP |-> NULL,
    buyEntryTrigger |-> NULL, buyStop |-> NULL,
    sellEntryTrigger |-> NULL, sellStop |-> NULL,
    longPosition |-> NoPosition, shortPosition |-> NoPosition,
    signalHistory |-> <<>>,
    lastTick |-> NoTick,
    buyEntryWindowStartTs |-> NULL, sellEntryWindowStartTs |-> NULL,
    buyProfitWindowStartTs |-> NULL, sellProfitWindowStartTs |-> NULL,
    waitWindowStartTs |-> NULL, waitWindowDurationMs |-> NULL,
    waitWindowSource |-> "null",
    waitForBuyEntryStartTs |-> NULL, waitForBuyEntryFirstTickSeen |-> FALSE,
    waitForSellEntryStartTs |-> NULL, waitForSellEntryFirstTickSeen |-> FALSE,
    buySignalFirstTickPending |-> FALSE, sellSignalFirstTickPending |-> FALSE,
    buyEntryFirstTickPending |-> FALSE, sellEntryFirstTickPending |-> FALSE,
    positionQty |-> 0, avgPrice |-> RInt(0), positionSide |-> "null",
    lastPrice |-> NULL, realizedPnl |-> RInt(0), tradeCount |-> 0,
    trades |-> <<>>,
    orders |-> <<>>, pnlCalls |-> <<>>, threw |-> FALSE ]

InitSession ==
  [ mode |-> "PAPER", paperCumulativePnL |-> 0, liveCumulativePnL |-> 0,
    totalLiveRealisedPnL |-> 0, dailyRealisedPnL |-> 0,
    dailyLossLimit |-> DAILY_LOSS_LIMIT, dailyStopActive |-> FALSE,
    trades |-> <<>> ]

Init ==
  /\ sys = InitSys
  /\ shadow = InitSys
  /\ sm = InitSession
  /\ lastOp = [op |-> "init", arg |-> 0]

\* The orders and P&L calls of one operation are observed per operation.
begin(w) == [w EXCEPT !.orders = <<>>, !.pnlCalls = <<>>]

NextTicks(w) ==
  {t \in [ltp : Prices, ts : TickTimes] :
     w.lastTick = NoTick \/ t.ts >= w.lastTick.ts}

\* ------------------------------------------------------------------------
\* Operations of the trading engine
\* ------------------------------------------------------------------------
Tick ==
  /\ sys.tradeCount < MaxTrades
  /\ \E t \in NextTicks(sys) :
       /\ sys' = marketTick(begin(sys), t)
       /\ lastOp' = [op |-> "tick", arg |-> 0]
  /\ UNCHANGED <<sm, shadow>>

BuySignal ==
  /\ Len(sys.signalHistory) < MaxSignals
  /\ sys' = onBuySignal(begin(sys))
  /\ lastOp' = [op |-> "buy", arg |-> 0]
  /\ UNCHANGED <<sm, shadow>>

SellSignal ==
  /\ Len(sys.signalHistory) < MaxSignals
  /\ sys' = onSellSignal(begin(sys))
  /\ lastOp' = [op |-> "sell", arg |-> 0]
  /\ UNCHANGED <<sm, shadow>>

ManualCloseAll ==
  /\ sys.tradeCount < MaxTrades
  /\ sys' = manualCloseAll(begin(sys))
  /\ lastOp' = [op |-> "manual", arg |-> 0]
  /\ UNCHANGED <<sm, shadow>>

Next == Tick \/ BuySignal \/ SellSignal \/ ManualCloseAll

Spec == Init /\ [][Next]_vars

\* ------------------------------------------------------------------------
\* Operations of the session manager
\* ------------------------------------------------------------------------
InRange(st) ==
  /\ Abs(st.paperCumulativePnL) <= MaxAbsPnl
  /\ Abs(st.liveCumulativePnL) <= MaxAbsPnl
  /\ Abs(st.totalLiveRealisedPnL) <= MaxAbsPnl
  /\ Abs(st.dailyRealisedPnL) <= MaxAbsPnl

UpdatePaperPnL ==
  /\ \E d \in Deltas :
       /\ InRange(updatePaperPnL(sm, d))
       /\ sm' = updatePaperPnL(sm, d)
       /\ lastOp' = [op |-> "updatePaperPnL", arg |-> d]
  /\ UNCHANGED <<sys, shadow>>

UpdateLivePnL ==
  /\ \E d \in Deltas :
       /\ InRange(updateLivePnL(sm, d))
       /\ sm' = updateLivePnL(sm, d)
       /\ lastOp' = [op |-> "updateLivePnL", arg |-> d]
  /\ UNCHANGED <<sys, shadow>>

ResetDailyStats ==
  /\ sm' = resetDailyStats(sm)
  /\ lastOp' = [op |-> "resetDailyStats", arg |-> 0]
  /\ UNCHANGED <<sys, shadow>>

AddTrade ==
  /\ Len(sm.trades) < MaxSessionTrades
  /\ \E t \in TradeIds :
       /\ sm' = addTrade(sm, t)
       /\ lastOp' = [op |-> "addTrade", arg |-> t]
  /\ UNCHANGED <<sys, shadow>>

SessionNext == UpdatePaperPnL \/ UpdateLivePnL \/ ResetDailyStats \/ AddTrade

SessionSpec == Init /\ [][SessionNext]_vars

\* ------------------------------------------------------------------------
\* Orders as the FSM intends them (fsm.js openLong/closeLong/openShort/closeShort)
\* ------------------------------------------------------------------------
IsLongOpenOrder(o) ==
  /\ o.fn = "placeLimitBuy"
  /\ o.reason \in {"BUYENTRY_TRIGGER_HIT", "WAIT_FOR_BUYENTRY_TRIGGER_HIT", "OPEN_LONG"}

IsLongCloseOrder(o) ==
  /\ o.fn = "placeLimitSell"
  /\ o.reason \in {"BUYPROFIT_STOP_HIT", "CLOSE_LONG", "MANUAL_OVERRIDE"}

IsShortOpenOrder(o) ==
  /\ o.fn = "placeLimitSell"
  /\ o.reason \in {"SELLENTRY_TRIGGER_HIT", "WAIT_FOR_SELLENTRY_TRIGGER_HIT", "OPEN_SHORT"}

IsShortCloseOrder(o) ==
  /\ o.fn = "placeLimitBuy"
  /\ o.reason \in {"SELLPROFIT_STOP_HIT", "CLOSE_SHORT", "MANUAL_OVERRIDE"}

OrdersOf(w, P(_)) == {i \in DOMAIN w.orders : P(w.orders[i])}

\* ------------------------------------------------------------------------
\* C1: each side holds at most one position, and in every operation the
\* orders of a side alternate with its position: an open order is placed only
\* while the side's position is not held (and leaves it held), a close order
\* only while it is held (and leaves it not held), and the position changes
\* only through such an order.
\* ------------------------------------------------------------------------
C1_StepOk ==
  LET lo == OrdersOf(sys', IsLongOpenOrder)
      lc == OrdersOf(sys', IsLongCloseOrder)
      so == OrdersOf(sys', IsShortOpenOrder)
      sc == OrdersOf(sys', IsShortCloseOrder)
  IN  /\ sys'.longPosition.qty \in {0, ORDER_QTY}
      /\ sys'.shortPosition.qty \in {0, ORDER_QTY}
      /\ Cardinality(lo \cup lc) <= 1
      /\ Cardinality(so \cup sc) <= 1
      /\ lo # {} <=> (~longIsOpen(sys) /\ longIsOpen(sys'))
      /\ lc # {} <=> (longIsOpen(sys) /\ ~longIsOpen(sys'))
      /\ so # {} <=> (~shortIsOpen(sys) /\ shortIsOpen(sys'))
      /\ sc # {} <=> (shortIsOpen(sys) /\ ~shortIsOpen(sys'))

C1_OrdersAlternate == [][C1_StepOk]_vars

\* A long was opened, closed and opened again while a short is held.
C1_Witness ==
  /\ Len(sys.trades) >= 3
  /\ longIsOpen(sys)
  /\ shortIsOpen(sys)
  /\ \E i, j, k \in DOMAIN sys.trades :
       /\ i < j /\ j < k
       /\ sys.trades[i].type = "OPEN" /\ sys.trades[i].side = "BUY"
       /\ sys.trades[j].reason = "BUYPROFIT_STOP_HIT"
       /\ sys.trades[k].type = "OPEN" /\ sys.trades[k].side = "BUY"

\* ------------------------------------------------------------------------
\* C2: on every tick that closes a long opened at p_o at price p_c the
\* realized P&L grows by (p_c - p_o) * qty, and for a short by
\* (p_o - p_c) * qty (both contributions when both sides close on the tick).
\* ------------------------------------------------------------------------
C2_Contribution(w, n) ==
  LET lc == OrdersOf(n, IsLongCloseOrder)
      sc == OrdersOf(n, IsShortCloseOrder)
      l == IF lc = {} THEN 0
           ELSE LET o == n.orders[CHOOSE i \in lc : TRUE]
                IN  (o.price - w.longPosition.entryPrice) * w.longPosition.qty
      h == IF sc = {} THEN 0
           ELSE LET o == n.orders[CHOOSE i \in sc : TRUE]
                IN  (w.shortPosition.entryPrice - o.price) * w.shortPosition.qty
  IN  l + h

C2_ClosesOnStep(n) ==
  OrdersOf(n, IsLongCloseOrder) \cup OrdersOf(n, IsShortCloseOrder) # {}

C2_RealizedPerTrade ==
  [][(lastOp'.op = "tick" /\ C2_ClosesOnStep(sys'))
       => sys'.realizedPnl = RAdd(sys.realizedPnl, RInt(C2_Contribution(sys, sys')))]_vars

\* ------------------------------------------------------------------------
\* Two runs of the engine on the same input sequence: sys receives every
\* signal and tick, shadow receives the same sequence without the SELL signals.
\* ------------------------------------------------------------------------
PairTick ==
  /\ sys.tradeCount < MaxTrades
  /\ shadow.tradeCount < MaxTrades
  /\ \E t \in NextTicks(sys) :
       /\ sys' = marketTick(begin(sys), t)
       /\ shadow' = marketTick(begin(shadow), t)
       /\ lastOp' = [op |-> "tick", arg |-> 0]
  /\ UNCHANGED sm

PairBuySignal ==
  /\ Len(sys.signalHistory) < MaxSignals
  /\ sys' = onBuySignal(begin(sys))
  /\ shadow' = onBuySignal(begin(shadow))
  /\ lastOp' = [op |-> "buy", arg |-> 0]
  /\ UNCHANGED sm

PairSellSignal ==
  /\ Len(sys.signalHistory) < MaxSignals
  /\ sys' = onSellSignal(begin(sys))
  /\ lastOp' = [op |-> "sell", arg |-> 0]
  /\ UNCHANGED <<sm, shadow>>

PairNext == PairTick \/ PairBuySignal \/ PairSellSignal

PairSpec == Init /\ [][PairNext]_vars

LongView(w) ==
  << w.buyState, w.savedBUYLTP, w.buyEntryTrigger, w.buyStop,
     w.buyEntryWindowStartTs, w.buyProfitWindowStartTs,
     w.waitForBuyEntryStartTs, w.waitForBuyEntryFirstTickSeen,
     w.buySignalFirstTickPending, w.buyEntryFirstTickPending,
     w.longPosition,
     IF w.buyState = "WAIT_WINDOW"
     THEN <<w.waitWindowStartTs, w.waitWindowDurationMs, w.waitWindowSource>>
     ELSE <<>> >>

ShortView(w) ==
  << w.sellState, w.savedSELLLTP, w.sellEntryTrigger, w.sellStop,
     w.sellEntryWindowStartTs, w.sellProfitWindowStartTs,
     w.waitForSellEntryStartTs, w.waitForSellEntryFirstTickSeen,
     w.sellSignalFirstTickPending, w.sellEntryFirstTickPending,
     w.shortPosition,
     IF w.sellState = "WAIT_WINDOW"
     THEN <<w.waitWindowStartTs, w.waitWindowDurationMs, w.waitWindowSource>>
     ELSE <<>> >>

\* ------------------------------------------------------------------------
\* C3: the long side's trajectory (state, anchors, timers, flags, position
\* and, while it is in WAIT_WINDOW, the wait window) is the same with and
\* without the SELL signals of the input sequence.
\* ------------------------------------------------------------------------
C3_LongUnaffectedBySell == LongView(sys) = LongView(shadow)

\* ------------------------------------------------------------------------
\* C4: on a tick at time t, a side that enters WAIT_WINDOW from a caller
\* window started at s records a positive duration 60000 - (t - s); when
\* t - s >= 60000 an entry miss re-arms ENTRY_WINDOW and a stop-out starts
\* WAIT_FOR_ENTRY at t within the same tick, WAIT_WINDOW not being entered.
\* ------------------------------------------------------------------------
C4_Long ==
  LET t == sys'.lastTick.ts
      miss == /\ sys.buyState = "BUYENTRY_WINDOW"
              /\ sys.buyEntryFirstTickPending
              /\ sys'.lastTick.ltp < sys.buyEntryTrigger
      stopOut == /\ sys.buyState = "BUYPROFIT_WINDOW"
                 /\ OrdersOf(sys', IsLongCloseOrder) # {}
      s == IF sys.buyState = "BUYENTRY_WINDOW" THEN sys.buyEntryWindowStartTs
           ELSE sys.buyProfitWindowStartTs
  IN  /\ (sys.buyState # "WAIT_WINDOW" /\ sys'.buyState = "WAIT_WINDOW") =>
           /\ miss \/ stopOut
           /\ sys'.waitWindowDurationMs > 0
           /\ sys'.waitWindowDurationMs = WINDOW_MS - (t - s)
      /\ (miss /\ t - s >= WINDOW_MS) =>
           /\ sys'.buyState = "BUYENTRY_WINDOW"
           /\ sys'.buyEntryFirstTickPending
      /\ (stopOut /\ t - s >= WINDOW_MS) =>
           /\ sys'.buyState = "WAIT_FOR_BUYENTRY"
           /\ sys'.waitForBuyEntryStartTs = t
           /\ ~sys'.waitForBuyEntryFirstTickSeen

C4_Short ==
  LET t == sys'.lastTick.ts
      miss == /\ sys.sellState = "SELLENTRY_WINDOW"
              /\ sys.sellEntryFirstTickPending
              /\ sys'.lastTick.ltp > sys.sellEntryTrigger
      stopOut == /\ sys.sellState = "SELLPROFIT_WINDOW"
                 /\ OrdersOf(sys', IsShortCloseOrder) # {}
      s == IF sys.sellState = "SELLENTRY_WINDOW" THEN sys.sellEntryWindowStartTs
           ELSE sys.sellProfitWindowStartTs
  IN  /\ (sys.sellState # "WAIT_WINDOW" /\ sys'.sellState = "WAIT_WINDOW") =>
           /\ miss \/ stopOut
           /\ sys'.waitWindowDurationMs > 0
           /\ sys'.waitWindowDurationMs = WINDOW_MS - (t - s)
      /\ (miss /\ t - s >= WINDOW_MS) =>
           /\ sys'.sellState = "SELLENTRY_WINDOW"
           /\ sys'.sellEntryFirstTickPending
      /\ (stopOut /\ t - s >= WINDOW_MS) =>
           /\ sys'.sellState = "WAIT_FOR_SELLENTRY"
           /\ sys'.waitForSellEntryStartTs = t
           /\ ~sys'.waitForSellEntryFirstTickSeen

C4_WaitResidual == [][lastOp'.op = "tick" => (C4_Long /\ C4_Short)]_vars

C6_Step ==
  /\ lastOp'.op = "buy" =>
       /\ sys'.buyState = "BUYSIGNAL"
       /\ sys'.buySignalFirstTickPending
  /\ lastOp'.op = "sell" =>
       /\ sys'.sellState = "SELLSIGNAL"
       /\ sys'.sellSignalFirstTickPending
  /\ (lastOp'.op = "tick" /\ sys.buyState = "BUYSIGNAL") =>
       /\ sys'.savedBUYLTP = sys'.lastTick.ltp
       /\ sys'.buyState = "BUYENTRY_WINDOW"
       /\ sys'.buyEntryFirstTickPending
  /\ (lastOp'.op = "tick" /\ sys.sellState = "SELLSIGNAL") =>
       /\ sys'.savedSELLLTP = sys'.lastTick.ltp
       /\ sys'.sellState = "SELLENTRY_WINDOW"
       /\ sys'.sellEntryFirstTickPending

C6_SignalRestarts == [][C6_Step]_vars

\* ------------------------------------------------------------------------
\* C7: a BUY signal leaves sellState, the short anchors, timers, first-tick
\* flags and shortPosition unchanged, and a SELL signal leaves the long-side
\* counterparts unchanged.
\* ------------------------------------------------------------------------
C7_Step ==
  /\ lastOp'.op = "buy" => ShortView(sys') = ShortView(sys)
  /\ lastOp'.op = "sell" => LongView(sys') = LongView(sys)

C7_SignalFrame == [][C7_Step]_vars

\* A BUY signal has just been delivered while the short side holds a position.
C7_Witness ==
  /\ lastOp.op = "buy"
  /\ sys.buyState = "BUYSIGNAL"
  /\ sys.sellState = "SELLPROFIT_WINDOW"
  /\ shortIsOpen(sys)

\* ------------------------------------------------------------------------
\* C8: the mode changes PAPER -> LIVE only in an updatePaperPnL call that
\* leaves paperCumulativePnL > 0 and LIVE -> PAPER only in an updateLivePnL
\* call that leaves liveCumulativePnL < 0; resetDailyStats, addTrade and the
\* other update call never change it.
\* ------------------------------------------------------------------------
C8_Step ==
  /\ (sm.mode = "PAPER" /\ sm'.mode = "LIVE") =>
       /\ lastOp'.op = "updatePaperPnL"
       /\ sm'.paperCumulativePnL > 0
  /\ (sm.mode = "LIVE" /\ sm'.mode = "PAPER") =>
       /\ lastOp'.op = "updateLivePnL"
       /\ sm'.liveCumulativePnL < 0
  /\ lastOp'.op \in {"resetDailyStats", "addTrade"} => sm'.mode = sm.mode
  /\ sm'.mode \in {"PAPER", "LIVE"}

C8_ModeTransitions == [][C8_Step]_vars

\* The gate has opened and the live-negative rule has brought the mode back.
C8_Witness ==
  /\ lastOp.op = "updateLivePnL"
  /\ sm.mode = "PAPER"
  /\ sm.paperCumulativePnL > 0
  /\ sm.liveCumulativePnL < 0

\* ------------------------------------------------------------------------
\* C9: once updateLivePnL has made liveCumulativePnL negative and the mode is
\* back to PAPER with dailyStopActive set, every further updatePaperPnL and
\* updateLivePnL call leaves the mode PAPER (until resetDailyStats).
\* ------------------------------------------------------------------------
C9_StaysPaperUntilReset ==
  [][(/\ sm.mode = "PAPER"
      /\ sm.dailyStopActive
      /\ lastOp'.op \in {"updatePaperPnL", "updateLivePnL"})
       => sm'.mode = "PAPER"]_vars

\* ------------------------------------------------------------------------
\* C10: while dailyStopActive is set the mode is not LIVE and an
\* updateLivePnL call changes nothing.
\* ------------------------------------------------------------------------
C10_DailyStopBlocksLive ==
  [][/\ sm'.dailyStopActive => sm'.mode # "LIVE"
     /\ (sm.dailyStopActive /\ lastOp'.op = "updateLivePnL") => sm' = sm]_vars

\* ------------------------------------------------------------------------
\* C11: updatePaperPnL(d) in PAPER mode adds d to paperCumulativePnL and
\* then, if the sum is > 0, sets mode = LIVE and liveCumulativePnL = 0,
\* otherwise leaves the mode PAPER; in LIVE mode it changes nothing.
\* ------------------------------------------------------------------------
C11_Step ==
  lastOp'.op = "updatePaperPnL" =>
    LET d == lastOp'.arg
        sum == sm.paperCumulativePnL + d
    IN  IF sm.mode = "PAPER"
        THEN sm' = [sm EXCEPT !.paperCumulativePnL = sum,
                              !.mode = IF sum > 0 THEN "LIVE" ELSE "PAPER",
                              !.liveCumulativePnL = IF sum > 0 THEN 0 ELSE @]
        ELSE sm' = sm

C11_UpdatePaperPnl == [][C11_Step]_vars

\* An updatePaperPnL call was made in LIVE mode (a call that opens the gate
\* leaves liveCumulativePnL at 0).
C11_Witness ==
  /\ lastOp.op = "updatePaperPnL"
  /\ lastOp.arg # 0
  /\ sm.mode = "LIVE"
  /\ sm.liveCumulativePnL # 0

\* ------------------------------------------------------------------------
\* C12: updateLivePnL(d) in LIVE mode adds d to liveCumulativePnL,
\* totalLiveRealisedPnL and dailyRealisedPnL, then sets mode = PAPER and
\* dailyStopActive if liveCumulativePnL < 0, and sets dailyStopActive if
\* dailyRealisedPnL <= dailyLossLimit; in PAPER mode it changes nothing.
\* ------------------------------------------------------------------------
C12_Step ==
  lastOp'.op = "updateLivePnL" =>
    LET d == lastOp'.arg
        live == sm.liveCumulativePnL + d
        daily == sm.dailyRealisedPnL + d
    IN  IF sm.mode = "LIVE"
        THEN sm' = [sm EXCEPT
                      !.liveCumulativePnL = live,
                      !.totalLiveRealisedPnL = @ + d,
                      !.dailyRealisedPnL = daily,
                      !.mode = IF live < 0 THEN "PAPER" ELSE "LIVE",
                      !.dailyStopActive =
                         @ \/ live < 0 \/ daily <= sm.dailyLossLimit]
        ELSE sm' = sm

C12_UpdateLivePnl == [][C12_Step]_vars

\* The daily limit is met exactly while the live sum is not negative.
C12_Witness ==
  /\ lastOp.op = "updateLivePnL"
  /\ sm.mode = "LIVE"
  /\ sm.dailyStopActive
  /\ sm.dailyRealisedPnL = sm.dailyLossLimit
  /\ sm.liveCumulativePnL >= 0

\* ------------------------------------------------------------------------
\* C13: after manualCloseAll in a state where a tick has been observed, no
\* position is open (each open one got a close order at the last tick's
\* price), both sides are in WAIT_FOR_SIGNAL and every window timer (entry,
\* profit, wait-window start/duration/source, wait-for-entry) is cleared.
\* ------------------------------------------------------------------------
C13_TimersCleared(w) ==
  /\ w.buyEntryWindowStartTs = NULL
  /\ w.sellEntryWindowStartTs = NULL
  /\ w.buyProfitWindowStartTs = NULL
  /\ w.sellProfitWindowStartTs = NULL
  /\ w.waitWindowStartTs = NULL
  /\ w.waitWindowDurationMs = NULL
  /\ w.waitWindowSource = "null"
  /\ w.waitForBuyEntryStartTs = NULL
  /\ w.waitForSellEntryStartTs = NULL

C13_Step ==
  (lastOp'.op = "manual" /\ sys.lastTick # NoTick) =>
    /\ ~longIsOpen(sys')
    /\ ~shortIsOpen(sys')
    /\ longIsOpen(sys) =>
         \E i \in DOMAIN sys'.orders :
           /\ sys'.orders[i].fn = "placeLimitSell"
           /\ sys'.orders[i].price = sys.lastTick.ltp
    /\ shortIsOpen(sys) =>
         \E i \in DOMAIN sys'.orders :
           /\ sys'.orders[i].fn = "placeLimitBuy"
           /\ sys'.orders[i].price = sys.lastTick.ltp
    /\ sys'.buyState = "WAIT_FOR_SIGNAL"
    /\ sys'.sellState = "WAIT_FOR_SIGNAL"
    /\ C13_TimersCleared(sys')

C13_ManualCloseResets == [][C13_Step]_vars

\* ------------------------------------------------------------------------
\* C14: manualCloseAll before any tick places no order, makes no P&L call
\* and leaves states, anchors, timers, positions and the P&L context as
\* they were.
\* ------------------------------------------------------------------------
C14_Step ==
  (lastOp'.op = "manual" /\ sys.lastTick = NoTick) =>
    /\ sys'.orders = <<>>
    /\ sys'.pnlCalls = <<>>
    /\ sys' = [sys EXCEPT !.orders = <<>>, !.pnlCalls = <<>>]

C14_ManualCloseBeforeTick == [][C14_Step]_vars

\* A manual close came before the first tick while a signal was pending.
C14_Witness ==
  /\ lastOp.op = "manual"
  /\ sys.lastTick = NoTick
  /\ sys.buyState = "BUYSIGNAL"
  /\ sys.buySignalFirstTickPending

\* ------------------------------------------------------------------------
\* C15: every order the FSM places is classified by the broker as the FSM
\* intends: an opening order (*_TRIGGER_HIT, OPEN_*) gives an openPosition
\* call on the P&L context, a closing order (*_STOP_HIT, CLOSE_*,
\* MANUAL_OVERRIDE) gives a closePosition call, for both broker functions.
\* ------------------------------------------------------------------------
C15_OrdersClassified ==
  /\ Len(sys.pnlCalls) = Len(sys.orders)
  /\ \A i \in DOMAIN sys.orders :
       LET o == sys.orders[i]
           c == sys.pnlCalls[i]
       IN  /\ (IsLongOpenOrder(o) \/ IsShortOpenOrder(o))
                => c.op = "openPosition"
           /\ (IsLongCloseOrder(o) \/ IsShortCloseOrder(o))
                => c.op = "closePosition"

\* ------------------------------------------------------------------------
\* C16: when an entry trigger is hit on a side that already holds its
\* position, the open is dropped: no opening order of that side is placed
\* and the side's state does not transition.
\* ------------------------------------------------------------------------
C16_BuyTriggerWhileOpen(w, ltp) ==
  /\ longIsOpen(w)
  /\ \/ w.buyState = "BUYENTRY_WINDOW" /\ w.buyEntryFirstTickPending
     \/ w.buyState = "WAIT_FOR_BUYENTRY" /\ ~w.waitForBuyEntryFirstTickSeen
  /\ ltp >= num(w.buyEntryTrigger)

C16_SellTriggerWhileOpen(w, ltp) ==
  /\ shortIsOpen(w)
  /\ \/ w.sellState = "SELLENTRY_WINDOW" /\ w.sellEntryFirstTickPending
     \/ w.sellState = "WAIT_FOR_SELLENTRY" /\ ~w.waitForSellEntryFirstTickSeen
  /\ ltp <= num(w.sellEntryTrigger)

C16_Step ==
  lastOp'.op = "tick" =>
    /\ C16_BuyTriggerWhileOpen(sys, sys'.lastTick.ltp) =>
         /\ \A i \in DOMAIN sys'.orders : ~IsLongOpenOrder(sys'.orders[i])
         /\ sys'.buyState = sys.buyState
    /\ C16_SellTriggerWhileOpen(sys, sys'.lastTick.ltp) =>
         /\ \A i \in DOMAIN sys'.orders : ~IsShortOpenOrder(sys'.orders[i])
         /\ sys'.sellState = sys.sellState

C16_DuplicateOpenDropped == [][C16_Step]_vars

\* ------------------------------------------------------------------------
\* The P&L context on its own: any sequence of openPosition, closePosition
\* and updateMarkPrice calls with positive quantities.
\* ------------------------------------------------------------------------
PnlOpen ==
  /\ sys.tradeCount < MaxPnlCalls
  /\ \E side \in {"BUY", "SELL"}, qty \in 1..MaxQty, price \in Prices :
       /\ sys' = openPosition(begin(sys), side, qty, price,
                              IF side = "BUY" THEN "OPEN_LONG" ELSE "OPEN_SHORT")
       /\ lastOp' = [op |-> "openPosition", arg |-> qty]
  /\ UNCHANGED <<sm, shadow>>

PnlClose ==
  /\ sys.tradeCount < MaxPnlCalls
  /\ \E side \in {"BUY", "SELL"}, qty \in 1..MaxQty, price \in Prices :
       /\ sys' = closePosition(begin(sys), side, qty, price,
                               IF side = "BUY" THEN "CLOSE_SHORT" ELSE "CLOSE_LONG")
       /\ lastOp' = [op |-> "closePosition", arg |-> qty]
  /\ UNCHANGED <<sm, shadow>>

PnlMark ==
  /\ \E price \in Prices :
       /\ sys' = updateMarkPrice(begin(sys), price)
       /\ lastOp' = [op |-> "updateMarkPrice", arg |-> price]
  /\ UNCHANGED <<sm, shadow>>

PnlNext == PnlOpen \/ PnlClose \/ PnlMark

PnlSpec == Init /\ [][PnlNext]_vars

\* ------------------------------------------------------------------------
\* C17: in the P&L context positionQty >= 0, a close never removes more
\* than the held quantity (qty is clamped to positionQty, in the position
\* and in the recorded trade), and positionQty = 0 implies positionSide is
\* null and avgPrice is 0.
\* ------------------------------------------------------------------------
C17_Step ==
  /\ sys'.positionQty >= 0
  /\ sys'.positionQty = 0 =>
       (sys'.positionSide = "null" /\ sys'.avgPrice = <<0, 1>>)
  /\ lastOp'.op = "closePosition" =>
       LET removed == sys.positionQty - sys'.positionQty
           asked == lastOp'.arg
       IN  /\ removed >= 0
           /\ removed <= sys.positionQty
           /\ removed <= asked
           /\ sys'.tradeCount # sys.tradeCount =>
                /\ removed = IF asked > sys.positionQty
                             THEN sys.positionQty ELSE asked
                /\ sys'.trades[Len(sys'.trades)].type = "CLOSE"
                /\ sys'.trades[Len(sys'.trades)].qty = removed

C17_PnlQuantity == [][C17_Step]_vars

\* A close asked for more than was held and emptied the position.
C17_Witness ==
  /\ lastOp.op = "closePosition"
  /\ sys.tradeCount > 1
  /\ sys.trades[Len(sys.trades)].type = "CLOSE"
  /\ sys.trades[Len(sys.trades)].qty < lastOp.arg
  /\ sys.positionQty = 0
  /\ sys.positionSide = "null"

\* The same bounds on the P&L context when the trading engine drives it.
C17_EngineView ==
  /\ sys.positionQty >= 0
  /\ sys.positionQty = 0 =>
       (sys.positionSide = "null" /\ sys.avgPrice = <<0, 1>>)

\* ------------------------------------------------------------------------
\* Persistence: the periodic snapshot and its restoration at startup.  The
\* snapshot holds plain JSON values (numbers, booleans, strings, null and
\* objects of them), which JSON.stringify / JSON.parse hand back unchanged.
\* ------------------------------------------------------------------------
getState(w) ==
  [ buyState |-> w.buyState,
    sellState |-> w.sellState,
    savedBUYLTP |-> w.savedBUYLTP,
    savedSELLLTP |-> w.savedSELLLTP,
    buyEntryTrigger |-> w.buyEntryTrigger,
    buyStop |-> w.buyStop,
    sellEntryTrigger |-> w.sellEntryTrigger,
    sellStop |-> w.sellStop,
    longPosition |-> w.longPosition,
    shortPosition |-> w.shortPosition,
    signalHistory |-> w.signalHistory,
    buyEntryWindowStartTs |-> w.buyEntryWindowStartTs,
    sellEntryWindowStartTs |-> w.sellEntryWindowStartTs,
    buyProfitWindowStartTs |-> w.buyProfitWindowStartTs,
    sellProfitWindowStartTs |-> w.sellProfitWindowStartTs,
    waitWindowStartTs |-> w.waitWindowStartTs,
    waitWindowDurationMs |-> w.waitWindowDurationMs,
    waitWindowSource |-> w.waitWindowSource,
    waitForBuyEntryStartTs |-> w.waitForBuyEntryStartTs,
    waitForBuyEntryFirstTickSeen |-> w.waitForBuyEntryFirstTickSeen,
    waitForSellEntryStartTs |-> w.waitForSellEntryStartTs,
    waitForSellEntryFirstTickSeen |-> w.waitForSellEntryFirstTickSeen,
    buySignalFirstTickPending |-> w.buySignalFirstTickPending,
    sellSignalFirstTickPending |-> w.sellSignalFirstTickPending,
    buyEntryFirstTickPending |-> w.buyEntryFirstTickPending,
    sellEntryFirstTickPending |-> w.sellEntryFirstTickPending ]

restoreState(w, state) ==
  [w EXCEPT !.buyState = IF state.buyState = "null" THEN "WAIT_FOR_SIGNAL" ELSE state.buyState,
            !.sellState = IF state.sellState = "null" THEN "WAIT_FOR_SIGNAL" ELSE state.sellState,
            !.savedBUYLTP = state.savedBUYLTP,
            !.savedSELLLTP = state.savedSELLLTP,
            !.buyEntryTrigger = state.buyEntryTrigger,
            !.buyStop = state.buyStop,
            !.sellEntryTrigger = state.sellEntryTrigger,
            !.sellStop = state.sellStop,
            !.longPosition = state.longPosition,
            !.shortPosition = state.shortPosition,
            !.signalHistory = state.signalHistory,
            !.buyEntryWindowStartTs = state.buyEntryWindowStartTs,
            !.sellEntryWindowStartTs = state.sellEntryWindowStartTs,
            !.buyProfitWindowStartTs = state.buyProfitWindowStartTs,
            !.sellProfitWindowStartTs = state.sellProfitWindowStartTs,
            !.waitWindowStartTs = state.waitWindowStartTs,
            !.waitWindowDurationMs = state.waitWindowDurationMs,
            !.waitWindowSource = state.waitWindowSource,
            !.waitForBuyEntryStartTs = state.waitForBuyEntryStartTs,
            !.waitForBuyEntryFirstTickSeen = state.waitForBuyEntryFirstTickSeen,
            !.waitForSellEntryStartTs = state.waitForSellEntryStartTs,
            !.waitForSellEntryFirstTickSeen = state.waitForSellEntryFirstTickSeen,
            !.buySignalFirstTickPending = state.buySignalFirstTickPending,
            !.sellSignalFirstTickPending = state.sellSignalFirstTickPending,
            !.buyEntryFirstTickPending = state.buyEntryFirstTickPending,
            !.sellEntryFirstTickPending = state.sellEntryFirstTickPending]

\* SessionManager.getState: a copy of every session field.
sessionGetState(st) ==
  [ mode |-> st.mode,
    paperCumulativePnL |-> st.paperCumulativePnL,
    liveCumulativePnL |-> st.liveCumulativePnL,
    totalLiveRealisedPnL |-> st.totalLiveRealisedPnL,
    dailyRealisedPnL |-> st.dailyRealisedPnL,
    dailyLossLimit |-> st.dailyLossLimit,
    dailyStopActive |-> st.dailyStopActive,
    trades |-> st.trades ]

\* The auto-save of index.js: FSM and session only.
autoSave(w, st) == [fsm |-> getState(w), session |-> sessionGetState(st)]

\* resumeState applied to a freshly created system.
resumeFsm(saved) == restoreState(InitSys, saved.fsm)

resumeSession(saved) ==
  [InitSession EXCEPT !.mode = saved.session.mode,
                      !.paperCumulativePnL = saved.session.paperCumulativePnL,
                      !.liveCumulativePnL = saved.session.liveCumulativePnL,
                      !.totalLiveRealisedPnL = saved.session.totalLiveRealisedPnL,
                      !.dailyRealisedPnL = saved.session.dailyRealisedPnL,
                      !.dailyLossLimit = saved.session.dailyLossLimit,
                      !.dailyStopActive = saved.session.dailyStopActive,
                      !.trades = saved.session.trades]

\* The process stops after an auto-save and starts again from the snapshot.
Restart ==
  /\ LET saved == autoSave(sys, sm)
     IN  /\ sys' = resumeFsm(saved)
         /\ sm' = resumeSession(saved)
  /\ lastOp' = [op |-> "restart", arg |-> 0]
  /\ UNCHANGED shadow

\* The market stream goes on across a restart: shadow.lastTick remembers the
\* last trade the exchange delivered, so timestamps never run backwards.
ResumeTick ==
  /\ sys.tradeCount < MaxResumeTrades
  /\ \E t \in [ltp : Prices, ts : TickTimes] :
       /\ shadow.lastTick = NoTick \/ t.ts >= shadow.lastTick.ts
       /\ sys' = marketTick(begin(sys), t)
       /\ shadow' = [shadow EXCEPT !.lastTick = t]
       /\ lastOp' = [op |-> "tick", arg |-> 0]
  /\ UNCHANGED sm

ResumeNext ==
  ResumeTick \/ BuySignal \/ SellSignal \/ ManualCloseAll \/ Restart

ResumeSpec == Init /\ [][ResumeNext]_vars

\* ------------------------------------------------------------------------
\* C18: snapshot round trip: restoring the periodic snapshot of a reachable
\* combined state S (FSM, session manager, P&L context) into a freshly
\* created system yields a state equal to S.
\* ------------------------------------------------------------------------
C18_Step ==
  lastOp'.op = "restart" =>
    /\ sys' = [sys EXCEPT !.orders = <<>>, !.pnlCalls = <<>>]
    /\ sm' = sm

C18_SnapshotRoundTrip == [][C18_Step]_vars

\* ------------------------------------------------------------------------
\* C19: every realized P&L delta produced when the P&L context closes a
\* position is delivered to the session manager: after the close
\* paperCumulativePnL (PAPER mode) or liveCumulativePnL (LIVE mode) has
\* increased by that delta.  Session amounts are in currency, P&L context
\* amounts in units of 0.5.
\* ------------------------------------------------------------------------
C19_NewCloses ==
  {i \in (Len(sys.trades) + 1)..Len(sys'.trades) : sys'.trades[i].type = "CLOSE"}

C19_Step ==
  C19_NewCloses # {} =>
    LET delta == RSub(sys'.realizedPnl, sys.realizedPnl)
        got == IF sm.mode = "PAPER"
               THEN sm'.paperCumulativePnL - sm.paperCumulativePnL
               ELSE sm'.liveCumulativePnL - sm.liveCumulativePnL
    IN  RInt(2 * HALF * got) = delta

C19_DeltaDelivered == [][C19_Step]_vars

\* ------------------------------------------------------------------------
\* C20: a side in WAIT_FOR_SIGNAL is idle: its anchors (saved LTP, entry
\* trigger, stop) are unset and it holds no position.
\* ------------------------------------------------------------------------
C20_IdleInWaitForSignal ==
  /\ sys.buyState = "WAIT_FOR_SIGNAL" =>
       /\ sys.savedBUYLTP = NULL
       /\ sys.buyEntryTrigger = NULL
       /\ sys.buyStop = NULL
       /\ ~longIsOpen(sys)
  /\ sys.sellState = "WAIT_FOR_SIGNAL" =>
       /\ sys.savedSELLLTP = NULL
       /\ sys.sellEntryTrigger = NULL
       /\ sys.sellStop = NULL
       /\ ~shortIsOpen(sys)

\* ------------------------------------------------------------------------
\* C21: whenever the long side is in PROFIT_WINDOW a LONG is open with a
\* non-null stop, and whenever the short side is in PROFIT_WINDOW a SHORT is
\* open with a non-null stop.
\* ------------------------------------------------------------------------
C21_ProfitWindowHoldsPosition ==
  /\ sys.buyState = "BUYPROFIT_WINDOW" =>
       /\ sys.longPosition # NoPosition
       /\ sys.longPosition.side = "LONG"
       /\ sys.longPosition.qty > 0
       /\ sys.longPosition.stop # NULL
  /\ sys.sellState = "SELLPROFIT_WINDOW" =>
       /\ sys.shortPosition # NoPosition
       /\ sys.shortPosition.side = "SHORT"
       /\ sys.shortPosition.qty > 0
       /\ sys.shortPosition.stop # NULL

\* Both sides are in their profit window after an earlier stop-out.
C21_Witness ==
  /\ sys.buyState = "BUYPROFIT_WINDOW"
  /\ sys.sellState = "SELLPROFIT_WINDOW"
  /\ \E i \in DOMAIN sys.trades : sys.trades[i].type = "CLOSE"

\* ------------------------------------------------------------------------
\* C23: onTick, the signal handlers and manualCloseAll never throw: a
\* position's stop is never assigned or read while the position record is
\* null.
\* ------------------------------------------------------------------------
C23_NoException == ~sys.threw

\* A re-entry from WAIT_FOR_BUYENTRY has assigned the stop of a new LONG while
\* a SHORT is held.
C23_Witness ==
  /\ lastOp.op = "tick"
  /\ \E i \in DOMAIN sys.orders :
       sys.orders[i].reason = "WAIT_FOR_BUYENTRY_TRIGGER_HIT"
  /\ sys.longPosition # NoPosition
  /\ sys.longPosition.stop = sys.buyStop
  /\ shortIsOpen(sys)

\* ------------------------------------------------------------------------
\* C24: with the long side in SIGNAL, the first tick (p, t) sets
\* savedBUYLTP = p, buyEntryTrigger = p + 0.5, buyStop = p - 0.5 and
\* buyEntryWindowStartTs = t, clears the signal-first-tick flag, sets the
\* entry-first-tick flag and moves the side to ENTRY_WINDOW; that tick never
\* decides the entry (no open order of the side, no WAIT_WINDOW).  The short
\* side mirrors this.
\* ------------------------------------------------------------------------
C24_Long ==
  (lastOp'.op = "tick" /\ sys.buyState = "BUYSIGNAL"
     /\ sys.buySignalFirstTickPending) =>
    LET p == sys'.lastTick.ltp
        t == sys'.lastTick.ts
    IN  /\ sys'.savedBUYLTP = p
        /\ sys'.buyEntryTrigger = p + HALF
        /\ sys'.buyStop = p - HALF
        /\ sys'.buyEntryWindowStartTs = t
        /\ ~sys'.buySignalFirstTickPending
        /\ sys'.buyEntryFirstTickPending
        /\ sys'.buyState = "BUYENTRY_WINDOW"
        /\ sys'.longPosition = sys.longPosition
        /\ \A i \in DOMAIN sys'.orders : ~IsLongOpenOrder(sys'.orders[i])

C24_Short ==
  (lastOp'.op = "tick" /\ sys.sellState = "SELLSIGNAL"
     /\ sys.sellSignalFirstTickPending) =>
    LET p == sys'.lastTick.ltp
        t == sys'.lastTick.ts
    IN  /\ sys'.savedSELLLTP = p
        /\ sys'.sellEntryTrigger = p - HALF
        /\ sys'.sellStop = p + HALF
        /\ sys'.sellEntryWindowStartTs = t
        /\ ~sys'.sellSignalFirstTickPending
        /\ sys'.sellEntryFirstTickPending
        /\ sys'.sellState = "SELLENTRY_WINDOW"
        /\ sys'.shortPosition = sys.shortPosition
        /\ \A i \in DOMAIN sys'.orders : ~IsShortOpenOrder(sys'.orders[i])

C24_LatchTick == [][C24_Long /\ C24_Short]_vars

\* ------------------------------------------------------------------------
\* C25: in ENTRY_WINDOW with the entry decision pending, the next tick
\* (p, t) alone decides: on the long side p >= buyEntryTrigger opens a LONG
\* of quantity 1 at p with position.stop = buyStop and
\* buyProfitWindowStartTs = t and moves to PROFIT_WINDOW; p < buyEntryTrigger
\* opens nothing and goes to WAIT_WINDOW with caller ENTRY.  The short side
\* compares p <= sellEntryTrigger and uses sellStop.
\* ------------------------------------------------------------------------
C25_Long ==
  (lastOp'.op = "tick" /\ sys.buyState = "BUYENTRY_WINDOW"
     /\ sys.buyEntryFirstTickPending) =>
    LET p == sys'.lastTick.ltp
        t == sys'.lastTick.ts
    IN  IF p >= sys.buyEntryTrigger
        THEN /\ \E i \in DOMAIN sys'.orders :
                  /\ IsLongOpenOrder(sys'.orders[i])
                  /\ sys'.orders[i].price = p
                  /\ sys'.orders[i].qty = 1
             /\ sys'.longPosition =
                  [side |-> "LONG", qty |-> 1, entryPrice |-> p,
                   stop |-> sys.buyStop]
             /\ sys'.buyProfitWindowStartTs = t
             /\ sys'.buyState = "BUYPROFIT_WINDOW"
        ELSE /\ \A i \in DOMAIN sys'.orders : ~IsLongOpenOrder(sys'.orders[i])
             /\ sys'.longPosition = sys.longPosition
             /\ sys'.buyState = "WAIT_WINDOW"
             /\ sys'.waitWindowSource = "BUYENTRY_WINDOW"

C25_Short ==
  (lastOp'.op = "tick" /\ sys.sellState = "SELLENTRY_WINDOW"
     /\ sys.sellEntryFirstTickPending) =>
    LET p == sys'.lastTick.ltp
        t == sys'.lastTick.ts
    IN  IF p <= sys.sellEntryTrigger
        THEN /\ \E i \in DOMAIN sys'.orders :
                  /\ IsShortOpenOrder(sys'.orders[i])
                  /\ sys'.orders[i].price = p
                  /\ sys'.orders[i].qty = 1
             /\ sys'.shortPosition =
                  [side |-> "SHORT", qty |-> 1, entryPrice |-> p,
                   stop |-> sys.sellStop]
             /\ sys'.sellProfitWindowStartTs = t
             /\ sys'.sellState = "SELLPROFIT_WINDOW"
        ELSE /\ \A i \in DOMAIN sys'.orders : ~IsShortOpenOrder(sys'.orders[i])
             /\ sys'.shortPosition = sys.shortPosition
             /\ sys'.sellState = "WAIT_WINDOW"
             /\ sys'.waitWindowSource = "SELLENTRY_WINDOW"

C25_EntryDecision == [][C25_Long /\ C25_Short]_vars

\* ------------------------------------------------------------------------
\* C26: in PROFIT_WINDOW each tick (p, t) on the long side does exactly one
\* of: if p <= position.stop, close the LONG at p and enter WAIT_WINDOW with
\* caller PROFIT (even when the 60 s have elapsed); else if
\* t - buyProfitWindowStartTs >= 60000, set buyProfitWindowStartTs = t
\* keeping the position and its stop; else change nothing.  The short side
\* mirrors this with p >= position.stop.
\* ------------------------------------------------------------------------
C26_Long ==
  (lastOp'.op = "tick" /\ sys.buyState = "BUYPROFIT_WINDOW") =>
    LET p == sys'.lastTick.ltp
        t == sys'.lastTick.ts
        closes == {i \in DOMAIN sys'.orders : IsLongCloseOrder(sys'.orders[i])}
    IN  IF p <= sys.longPosition.stop
        THEN /\ \E i \in closes : sys'.orders[i].price = p
             /\ sys'.longPosition = NoPosition
             /\ sys'.buyState = "WAIT_WINDOW"
             /\ sys'.waitWindowSource = "BUYPROFIT_WINDOW"
        ELSE /\ closes = {}
             /\ sys'.longPosition = sys.longPosition
             /\ sys'.buyState = "BUYPROFIT_WINDOW"
             /\ sys'.buyProfitWindowStartTs =
                  IF t - sys.buyProfitWindowStartTs >= WINDOW_MS
                  THEN t ELSE sys.buyProfitWindowStartTs

C26_Short ==
  (lastOp'.op = "tick" /\ sys.sellState = "SELLPROFIT_WINDOW") =>
    LET p == sys'.lastTick.ltp
        t == sys'.lastTick.ts
        closes == {i \in DOMAIN sys'.orders : IsShortCloseOrder(sys'.orders[i])}
    IN  IF p >= sys.shortPosition.stop
        THEN /\ \E i \in closes : sys'.orders[i].price = p
             /\ sys'.shortPosition = NoPosition
             /\ sys'.sellState = "WAIT_WINDOW"
             /\ sys'.waitWindowSource = "SELLPROFIT_WINDOW"
        ELSE /\ closes = {}
             /\ sys'.shortPosition = sys.shortPosition
             /\ sys'.sellState = "SELLPROFIT_WINDOW"
             /\ sys'.sellProfitWindowStartTs =
                  IF t - sys.sellProfitWindowStartTs >= WINDOW_MS
                  THEN t ELSE sys.sellProfitWindowStartTs

C26_ProfitTick == [][C26_Long /\ C26_Short]_vars

\* ------------------------------------------------------------------------
\* C27: a side in WAIT_WINDOW stays there on every tick with
\* t - waitWindowStartTs < waitWindowDurationMs and, on the first tick with
\* t - waitWindowStartTs >= waitWindowDurationMs, resolves by its caller:
\* caller ENTRY returns to ENTRY_WINDOW with the same anchors and the entry
\* decision pending, caller PROFIT goes to WAIT_FOR_ENTRY with
\* waitForEntryStartTs = t and firstTickSeen = false; the resolving tick
\* opens no position.
\* ------------------------------------------------------------------------
C27_Long ==
  (lastOp'.op = "tick" /\ sys.buyState = "WAIT_WINDOW") =>
    LET t == sys'.lastTick.ts
    IN  /\ sys.waitWindowSource \in {"BUYENTRY_WINDOW", "BUYPROFIT_WINDOW"}
        /\ \A i \in DOMAIN sys'.orders : ~IsLongOpenOrder(sys'.orders[i])
        /\ sys'.longPosition = sys.longPosition
        /\ <<sys'.savedBUYLTP, sys'.buyEntryTrigger, sys'.buyStop>> =
             <<sys.savedBUYLTP, sys.buyEntryTrigger, sys.buyStop>>
        /\ IF t - sys.waitWindowStartTs < sys.waitWindowDurationMs
           THEN sys'.buyState = "WAIT_WINDOW"
           ELSE IF sys.waitWindowSource = "BUYENTRY_WINDOW"
                THEN /\ sys'.buyState = "BUYENTRY_WINDOW"
                     /\ sys'.buyEntryFirstTickPending
                ELSE /\ sys'.buyState = "WAIT_FOR_BUYENTRY"
                     /\ sys'.waitForBuyEntryStartTs = t
                     /\ ~sys'.waitForBuyEntryFirstTickSeen

C27_Short ==
  (lastOp'.op = "tick" /\ sys.sellState = "WAIT_WINDOW") =>
    LET t == sys'.lastTick.ts
    IN  /\ sys.waitWindowSource \in {"SELLENTRY_WINDOW", "SELLPROFIT_WINDOW"}
        /\ \A i \in DOMAIN sys'.orders : ~IsShortOpenOrder(sys'.orders[i])
        /\ sys'.shortPosition = sys.shortPosition
        /\ <<sys'.savedSELLLTP, sys'.sellEntryTrigger, sys'.sellStop>> =
             <<sys.savedSELLLTP, sys.sellEntryTrigger, sys.sellStop>>
        /\ IF t - sys.waitWindowStartTs < sys.waitWindowDurationMs
           THEN sys'.sellState = "WAIT_WINDOW"
           ELSE IF sys.waitWindowSource = "SELLENTRY_WINDOW"
                THEN /\ sys'.sellState = "SELLENTRY_WINDOW"
                     /\ sys'.sellEntryFirstTickPending
                ELSE /\ sys'.sellState = "WAIT_FOR_SELLENTRY"
                     /\ sys'.waitForSellEntryStartTs = t
                     /\ ~sys'.waitForSellEntryFirstTickSeen

C27_WaitWindowTick == [][C27_Long /\ C27_Short]_vars

\* ------------------------------------------------------------------------
\* C28: in WAIT_FOR_ENTRY only the first tick after entering or after a
\* restart evaluates the entry trigger (opening the position and moving to
\* PROFIT_WINDOW when it is hit); later ticks of the same window never open
\* a position; a tick with t - waitForEntryStartTs >= 60000 restarts the
\* window (waitForEntryStartTs = t, firstTickSeen = false); the side stays
\* in WAIT_FOR_ENTRY until a first tick hits the trigger.
\* ------------------------------------------------------------------------
C28_Long ==
  (lastOp'.op = "tick" /\ sys.buyState = "WAIT_FOR_BUYENTRY") =>
    LET p == sys'.lastTick.ltp
        t == sys'.lastTick.ts
        start == IF sys.waitForBuyEntryStartTs \in {NULL, 0}
                 THEN t ELSE sys.waitForBuyEntryStartTs
        opens == {i \in DOMAIN sys'.orders : IsLongOpenOrder(sys'.orders[i])}
    IN  IF ~sys.waitForBuyEntryFirstTickSeen /\ p >= sys.buyEntryTrigger
        THEN /\ \E i \in opens : sys'.orders[i].price = p
             /\ sys'.longPosition =
                  [side |-> "LONG", qty |-> 1, entryPrice |-> p,
                   stop |-> sys.buyStop]
             /\ sys'.buyState = "BUYPROFIT_WINDOW"
        ELSE /\ opens = {}
             /\ sys'.longPosition = sys.longPosition
             /\ sys'.buyState = "WAIT_FOR_BUYENTRY"
             /\ IF t - start >= WINDOW_MS
                THEN /\ sys'.waitForBuyEntryStartTs = t
                     /\ ~sys'.waitForBuyEntryFirstTickSeen
                ELSE /\ sys'.waitForBuyEntryStartTs = start
                     /\ sys'.waitForBuyEntryFirstTickSeen

C28_Short ==
  (lastOp'.op = "tick" /\ sys.sellState = "WAIT_FOR_SELLENTRY") =>
    LET p == sys'.lastTick.ltp
        t == sys'.lastTick.ts
        start == IF sys.waitForSellEntryStartTs \in {NULL, 0}
                 THEN t ELSE sys.waitForSellEntryStartTs
        opens == {i \in DOMAIN sys'.orders : IsShortOpenOrder(sys'.orders[i])}
    IN  IF ~sys.waitForSellEntryFirstTickSeen /\ p <= sys.sellEntryTrigger
        THEN /\ \E i \in opens : sys'.orders[i].price = p
             /\ sys'.shortPosition =
                  [side |-> "SHORT", qty |-> 1, entryPrice |-> p,
                   stop |-> sys.sellStop]
             /\ sys'.sellState = "SELLPROFIT_WINDOW"
        ELSE /\ opens = {}
             /\ sys'.shortPosition = sys.shortPosition
             /\ sys'.sellState = "WAIT_FOR_SELLENTRY"
             /\ IF t - start >= WINDOW_MS
                THEN /\ sys'.waitForSellEntryStartTs = t
                     /\ ~sys'.waitForSellEntryFirstTickSeen
                ELSE /\ sys'.waitForSellEntryStartTs = start
                     /\ sys'.waitForSellEntryFirstTickSeen

C28_WaitForEntryTick == [][C28_Long /\ C28_Short]_vars

\* ------------------------------------------------------------------------
\* Webhook ingress (tradingviewServer.js, parseTradingViewMessage.js)
\* ------------------------------------------------------------------------
\* Message texts offered to the webhook, as character sequences.
Texts ==
  [ entry     |-> <<"A","c","c","e","p","t","e","d"," ","E","n","t","r","y">>,
    exit      |-> <<"A","c","c","e","p","t","e","d"," ","E","x","i","t">>,
    lowEntry  |-> <<"a","c","c","e","p","t","e","d"," "," ","e","n","t","r","y">>,
    upExit    |-> <<"A","C","C","E","P","T","E","D","\t","E","X","I","T">>,
    padExit   |-> <<" ","A","c","c","e","p","t","e","d"," ","E","x","i","t","\n">>,
    midEntry  |-> <<"x"," ","A","c","c","e","p","t","e","d"," ","E","n","t","r","y","+">>,
    glued     |-> <<"A","c","c","e","p","t","e","d","E","n","t","r","y">>,
    swapped   |-> <<"E","x","i","t"," ","A","c","c","e","p","t","e","d">>,
    both      |-> <<"A","c","c","e","p","t","e","d"," ","E","x","i","t"," ",
                    "A","c","c","e","p","t","e","d"," ","E","n","t","r","y">>,
    blank     |-> <<" "," ">>,
    empty     |-> <<>>,
    brace     |-> <<"{","A","c","c","e","p","t","e","d"," ","E","n","t","r","y">>,
    jsonText  |-> <<"{","\"","t","e","x","t","\"",":","\"","A","c","c","e","p",
                    "t","e","d"," ","E","x","i","t","\"","}">>,
    jsonArray |-> <<" ","[","]">> ]

UpperCase ==
  <<"A","B","C","D","E","F","G","H","I","J","K","L","M",
    "N","O","P","Q","R","S","T","U","V","W","X","Y","Z">>

LowerCase ==
  <<"a","b","c","d","e","f","g","h","i","j","k","l","m",
    "n","o","p","q","r","s","t","u","v","w","x","y","z">>

toLowerCase(c) ==
  IF \E k \in DOMAIN UpperCase : UpperCase[k] = c
  THEN LowerCase[CHOOSE k \in DOMAIN UpperCase : UpperCase[k] = c]
  ELSE c

isSpace(c) == c \in {" ", "\t", "\n", "\r"}

RECURSIVE trimStart(_)
trimStart(s) ==
  IF s # <<>> /\ isSpace(Head(s)) THEN trimStart(Tail(s)) ELSE s

RECURSIVE trimEnd(_)
trimEnd(s) ==
  IF s # <<>> /\ isSpace(s[Len(s)])
  THEN trimEnd(SubSeq(s, 1, Len(s) - 1)) ELSE s

trim(s) == trimEnd(trimStart(s))

startsWith(s, c) == s # <<>> /\ Head(s) = c

\* /Accepted\s+<word>/i.test(s)
testAccepted(s, word) ==
  LET l == [k \in 1..Len(s) |-> toLowerCase(s[k])]
      accepted == <<"a","c","c","e","p","t","e","d">>
      at(i, u) == /\ i + Len(u) - 1 <= Len(l)
                  /\ \A k \in 1..Len(u) : l[i + k - 1] = u[k]
  IN  \E i \in 1..Len(l) :
        /\ at(i, accepted)
        /\ \E j \in (i + 9)..Len(l) :
             /\ \A k \in (i + 8)..(j - 1) : isSpace(l[k])
             /\ at(j, word)

isEntry(s) == testAccepted(s, <<"e","n","t","r","y">>)

isExit(s) == testAccepted(s, <<"e","x","i","t">>)

\* parseTradingViewMessage that prefers the exit phrase.
parseTradingViewMessage_ExitFirst(message) ==
  LET trimmed == trim(message)
  IN  IF isExit(trimmed) THEN "SELL"
      ELSE IF isEntry(trimmed) THEN "BUY"
      ELSE "null"

parseTradingViewMessage(message) ==
  LET trimmed == trim(message)
  IN  IF isEntry(trimmed) THEN "BUY"
      ELSE IF isExit(trimmed) THEN "SELL"
      ELSE "null"

\* JavaScript values of the body's fields: undefined, null, a non-zero
\* number, or a string.
JsUndefined == [t |-> "undefined", v |-> <<>>]

JsNull == [t |-> "null", v |-> <<>>]

JsNumber == [t |-> "number", v |-> <<>>]

JsString(s) == [t |-> "string", v |-> s]

NoBody == [ok |-> FALSE, message |-> JsUndefined, text |-> JsUndefined,
           signal |-> JsUndefined]

JsonBody(m, x, g) == [ok |-> TRUE, message |-> m, text |-> x, signal |-> g]

\* A request is a raw text body (json is then what JSON.parse makes of the
\* trimmed text, ok = FALSE when it throws) or an already parsed JSON body.
TextRequest(name, parsed) ==
  [isString |-> TRUE, raw |-> Texts[name], json |-> parsed]

JsonRequest(m, x, g) ==
  [isString |-> FALSE, raw |-> <<>>, json |-> JsonBody(m, x, g)]

PlainTexts ==
  {"entry", "exit", "lowEntry", "upExit", "padExit", "midEntry", "glued",
   "swapped", "both", "blank", "empty", "brace"}

Requests ==
  {TextRequest(n, NoBody) : n \in PlainTexts}
  \cup {TextRequest("jsonText",
                    JsonBody(JsUndefined, JsString(Texts["exit"]), JsUndefined)),
        TextRequest("jsonArray",
                    JsonBody(JsUndefined, JsUndefined, JsUndefined))}
  \cup {JsonRequest(JsString(Texts[n]), JsUndefined, JsUndefined) :
          n \in PlainTexts}
  \cup {JsonRequest(m, x, g) :
          m \in {JsUndefined, JsNull, JsNumber},
          x \in {JsUndefined, JsString(Texts["entry"])},
          g \in {JsUndefined, JsString(Texts["exit"])}}

nullish(f) == f.t \in {"undefined", "null"}

\* STEP 1 and STEP 2 of the handler: the message text of the request.
extractMessage(req) ==
  LET trimmed == trim(req.raw)
      parses == /\ startsWith(trimmed, "{") \/ startsWith(trimmed, "[")
                /\ req.json.ok
      body == req.json
  IN  IF req.isString /\ ~parses THEN JsString(trim(trimmed))
      ELSE IF ~nullish(body.message) THEN body.message
      ELSE IF ~nullish(body.text) THEN body.text
      ELSE IF ~nullish(body.signal) THEN body.signal
      ELSE JsNull

\* !message || typeof message !== "string"
unusable(message) == message.t # "string" \/ message.v = <<>>

emitBuy(w) == onBuySignal(w)

emitSell(w) == onSellSignal(w)

\* STEP 3 and STEP 4 of the handler: what it answers and which side it
\* takes from the message.
respond(req) ==
  LET message == extractMessage(req)
      side == parseTradingViewMessage(message.v)
  IN  IF unusable(message) THEN [status |-> 400, side |-> "null"]
      ELSE IF side = "null" THEN [status |-> 400, side |-> "null"]
      ELSE [status |-> 200, side |-> side]

Responses == [req \in Requests |-> respond(req)]

\* POST /webhook: the response status, the signals published and the state
\* the subscribers leave behind.
webhook(w, req) ==
  LET r == Responses[req]
      b == IF r.side = "BUY" THEN emitBuy(begin(w)) ELSE begin(w)
      s == IF r.side = "SELL" THEN emitSell(b) ELSE b
  IN  IF r.status = 400
      THEN [status |-> 400, emitted |-> <<>>, w |-> w]
      ELSE [status |-> 200,
            emitted |-> (IF r.side = "BUY" THEN <<"BUY">> ELSE <<>>)
                        \o (IF r.side = "SELL" THEN <<"SELL">> ELSE <<>>),
            w |-> s]

Webhook ==
  \E req \in Requests :
    LET r == webhook(sys, req)
    IN  /\ r.status = 200 => Len(sys.signalHistory) < MaxSignals
        /\ sys' = r.w
        /\ lastOp' = [op |-> "webhook",
                      arg |-> [req |-> req, status |-> r.status,
                               emitted |-> r.emitted]]
        /\ UNCHANGED <<sm, shadow>>

WebhookTick ==
  /\ sys.tradeCount < MaxWebhookTrades
  /\ \E t \in NextTicks(sys) :
       /\ t.ts <= MaxWebhookTsSteps * TsStep
       /\ sys' = marketTick(begin(sys), t)
       /\ lastOp' = [op |-> "tick", arg |-> [req |-> 0]]
  /\ UNCHANGED <<sm, shadow>>

WebhookNext == Webhook \/ WebhookTick

WebhookInit ==
  /\ sys = InitSys
  /\ shadow = InitSys
  /\ sm = InitSession
  /\ lastOp = [op |-> "init", arg |-> [req |-> 0]]

WebhookSpec == WebhookInit /\ [][WebhookNext]_vars

\* C22: a webhook request whose message is missing or matches neither
\* "Accepted Entry" nor "Accepted Exit" is answered with status 400, publishes
\* no signal and leaves the FSM, P&L and session state unchanged; any other
\* request is answered 200 and publishes exactly one signal, BUY when the
\* entry phrase matches and SELL when (only) the exit phrase matches.
C22_Match ==
  [req \in Requests |->
     LET m == extractMessage(req)
         usable == m.t = "string" /\ m.v # <<>>
     IN  [entry |-> usable /\ isEntry(m.v), exit |-> usable /\ isExit(m.v)]]

C22_Step ==
  lastOp'.op = "webhook" =>
    LET entry == C22_Match[lastOp'.arg.req].entry
        exit == C22_Match[lastOp'.arg.req].exit
    IN  /\ ~(entry \/ exit) =>
             /\ lastOp'.arg.status = 400
             /\ lastOp'.arg.emitted = <<>>
             /\ sys' = sys /\ sm' = sm
        /\ entry =>
             /\ lastOp'.arg.status = 200
             /\ lastOp'.arg.emitted = <<"BUY">>
             /\ sys'.signalHistory =
                  <<[side |-> "BUY", state |-> sys.buyState]>> \o sys.signalHistory
             /\ sys'.buyState = "BUYSIGNAL" /\ sys'.sellState = sys.sellState
        /\ (exit /\ ~entry) =>
             /\ lastOp'.arg.status = 200
             /\ lastOp'.arg.emitted = <<"SELL">>
             /\ sys'.signalHistory =
                  <<[side |-> "SELL", state |-> sys.sellState]>> \o sys.signalHistory
             /\ sys'.sellState = "SELLSIGNAL" /\ sys'.buyState = sys.buyState

shiftOrigin(w) ==
  LET sh == w.lastTick.ts - LiveHorizon
      mv(x) == IF falsyTs(x) THEN x
               ELSE IF x - sh < LiveFloor THEN LiveFloor ELSE x - sh
  IN  IF sh <= 0 THEN w
      ELSE [w EXCEPT !.lastTick.ts = mv(@),
                     !.buyEntryWindowStartTs = mv(@),
                     !.sellEntryWindowStartTs = mv(@),
                     !.buyProfitWindowStartTs = mv(@),
                     !.sellProfitWindowStartTs = mv(@),
                     !.waitWindowStartTs = mv(@),
                     !.waitForBuyEntryStartTs = mv(@),
                     !.waitForSellEntryStartTs = mv(@)]

\* A tick with a positive timestamp strictly after the previous one.
LiveTick ==
  /\ sys.tradeCount < MaxLiveTrades
  /\ \E p \in Prices, d \in {TsStep, 2 * TsStep} :
       LET now == IF sys.lastTick = NoTick THEN 0 ELSE sys.lastTick.ts
           t == [ltp |-> p, ts |-> now + d]
       IN  /\ \E r \in {marketTick(begin(sys), t)} : sys' = shiftOrigin(r)
           /\ lastOp' = [op |-> "tick", arg |-> 0]
  /\ UNCHANGED <<sm, shadow>>

LiveNext == LiveTick \/ BuySignal \/ SellSignal

\* The market stream calls onTick for every trade message of the socket.
LiveSpec == Init /\ [][LiveNext]_vars /\ WF_vars(LiveTick)

\* C29: every WAIT_WINDOW eventually resolves: while ticks keep arriving with
\* strictly increasing positive timestamps, a side that is in WAIT_WINDOW
\* eventually leaves it, whatever the other side does (a side that leaves
\* because a new signal arrived counts as having left; the stream of the
\* model ends only at MaxLiveTrades).
C29_StreamEnded == sys.tradeCount >= MaxLiveTrades

C29_BuyLeaves ==
  (sys.buyState = "WAIT_WINDOW")
    ~> (sys.buyState # "WAIT_WINDOW" \/ C29_StreamEnded)

C29_SellLeaves ==
  (sys.sellState = "WAIT_WINDOW")
    ~> (sys.sellState # "WAIT_WINDOW" \/ C29_StreamEnded)

C29_WaitWindowResolves == C29_BuyLeaves /\ C29_SellLeaves

\* C30: a burst of ticks does not produce several entry evaluations: after a
\* tick on which a side evaluated its entry trigger and missed (in
\* ENTRY_WINDOW with the decision pending, or in WAIT_FOR_ENTRY on a first
\* tick), the anchors being the same, the side is not left armed to evaluate
\* the trigger again on the very next tick.
C30_BuyArmed(w) ==
  \/ w.buyState = "BUYENTRY_WINDOW" /\ w.buyEntryFirstTickPending
  \/ w.buyState = "WAIT_FOR_BUYENTRY" /\ ~w.waitForBuyEntryFirstTickSeen

C30_SellArmed(w) ==
  \/ w.sellState = "SELLENTRY_WINDOW" /\ w.sellEntryFirstTickPending
  \/ w.sellState = "WAIT_FOR_SELLENTRY" /\ ~w.waitForSellEntryFirstTickSeen

C30_Long ==
  (/\ lastOp'.op = "tick"
   /\ C30_BuyArmed(sys)
   /\ sys'.lastTick.ltp < sys.buyEntryTrigger
   /\ sys'.buyEntryTrigger = sys.buyEntryTrigger)
    => ~C30_BuyArmed(sys')

C30_Short ==
  (/\ lastOp'.op = "tick"
   /\ C30_SellArmed(sys)
   /\ sys'.lastTick.ltp > sys.sellEntryTrigger
   /\ sys'.sellEntryTrigger = sys.sellEntryTrigger)
    => ~C30_SellArmed(sys')

C30_NoConsecutiveEvaluation == [][C30_Long /\ C30_Short]_vars

\* C31: a tick is processed in a fixed order, BUY switch, SELL switch, then
\* the wait-window post-check: every order of the long side is placed before
\* every order of the short side, each side runs at most one handler (at most
\* one order per side; a side that starts the tick in SIGNAL only latches, a
\* side that starts it in WAIT_FOR_SIGNAL or WAIT_WINDOW places nothing), and
\* a side that enters WAIT_WINDOW with a positive duration on a tick is still
\* in WAIT_WINDOW when the tick ends.
C31_LongOrders(w) ==
  {i \in DOMAIN w.orders :
     IsLongOpenOrder(w.orders[i]) \/ IsLongCloseOrder(w.orders[i])}

C31_ShortOrders(w) ==
  {i \in DOMAIN w.orders :
     IsShortOpenOrder(w.orders[i]) \/ IsShortCloseOrder(w.orders[i])}

C31_BuyEntersWait(w, tick) ==
  \/ /\ w.buyState = "BUYENTRY_WINDOW" /\ w.buyEntryFirstTickPending
     /\ tick.ltp < num(w.buyEntryTrigger)
     /\ w.buyEntryWindowStartTs # NULL
     /\ tick.ts - w.buyEntryWindowStartTs < WINDOW_MS
  \/ /\ w.buyState = "BUYPROFIT_WINDOW" /\ longIsOpen(w)
     /\ tick.ltp <= num(w.longPosition.stop)
     /\ w.buyProfitWindowStartTs # NULL
     /\ tick.ts - w.buyProfitWindowStartTs < WINDOW_MS

C31_SellEntersWait(w, tick) ==
  \/ /\ w.sellState = "SELLENTRY_WINDOW" /\ w.sellEntryFirstTickPending
     /\ tick.ltp > num(w.sellEntryTrigger)
     /\ w.sellEntryWindowStartTs # NULL
     /\ tick.ts - w.sellEntryWindowStartTs < WINDOW_MS
  \/ /\ w.sellState = "SELLPROFIT_WINDOW" /\ shortIsOpen(w)
     /\ tick.ltp >= num(w.shortPosition.stop)
     /\ w.sellProfitWindowStartTs # NULL
     /\ tick.ts - w.sellProfitWindowStartTs < WINDOW_MS

C31_Step ==
  lastOp'.op = "tick" =>
    LET tick == sys'.lastTick
        longs == C31_LongOrders(sys')
        shorts == C31_ShortOrders(sys')
    IN  /\ Cardinality(longs) <= 1
        /\ Cardinality(shorts) <= 1
        /\ Len(sys'.orders) = Cardinality(longs) + Cardinality(shorts)
        /\ \A i \in longs, j \in shorts : i < j
        /\ sys.buyState \in {"BUYSIGNAL", "WAIT_FOR_SIGNAL", "WAIT_WINDOW"}
             => longs = {}
        /\ sys.sellState \in {"SELLSIGNAL", "WAIT_FOR_SIGNAL", "WAIT_WINDOW"}
             => shorts = {}
        /\ (sys.buyState = "BUYSIGNAL" /\ sys.buySignalFirstTickPending)
             => sys'.savedBUYLTP = tick.ltp /\ sys'.longPosition = sys.longPosition
        /\ (sys.sellState = "SELLSIGNAL" /\ sys.sellSignalFirstTickPending)
             => sys'.savedSELLLTP = tick.ltp /\ sys'.shortPosition = sys.shortPosition
        /\ C31_BuyEntersWait(sys, tick) => sys'.buyState = "WAIT_WINDOW"
        /\ C31_SellEntersWait(sys, tick) => sys'.sellState = "WAIT_WINDOW"

C31_TickOrder == [][C31_Step]_vars

\* A tick on which both sides placed an order.
C31_Witness ==
  /\ lastOp.op = "tick"
  /\ C31_LongOrders(sys) # {}
  /\ C31_ShortOrders(sys) # {}

\* C32: a side's anchors (saved LTP, entry trigger, stop) change only on the
\* first tick after a signal on that side, which latches them from the tick's
\* price; every other tick (ENTRY_WINDOW, PROFIT_WINDOW, WAIT_WINDOW,
\* WAIT_FOR_ENTRY, stop-out, wait-window resolution), every signal and every
\* manual close leaves them as they were.
C32_BuyAnchors(w) == <<w.savedBUYLTP, w.buyEntryTrigger, w.buyStop>>

C32_SellAnchors(w) == <<w.savedSELLLTP, w.sellEntryTrigger, w.sellStop>>

C32_Long ==
  LET latch == /\ lastOp'.op = "tick"
               /\ sys.buyState = "BUYSIGNAL"
               /\ sys.buySignalFirstTickPending
      p == sys'.lastTick.ltp
  IN  IF latch
      THEN C32_BuyAnchors(sys') = <<p, p + HALF, p - HALF>>
      ELSE C32_BuyAnchors(sys') = C32_BuyAnchors(sys)

C32_Short ==
  LET latch == /\ lastOp'.op = "tick"
               /\ sys.sellState = "SELLSIGNAL"
               /\ sys.sellSignalFirstTickPending
      p == sys'.lastTick.ltp
  IN  IF latch
      THEN C32_SellAnchors(sys') = <<p, p - HALF, p + HALF>>
      ELSE C32_SellAnchors(sys') = C32_SellAnchors(sys)

C32_AnchorsFrame == [][C32_Long /\ C32_Short]_vars

\* A retry: the long side is back in ENTRY_WINDOW after a WAIT_WINDOW that
\* followed a missed entry, with the decision pending and the anchors of the
\* signal tick, the price having moved since.
C32_Witness ==
  /\ lastOp.op = "tick"
  /\ sys.buyState = "BUYENTRY_WINDOW"
  /\ sys.buyEntryFirstTickPending
  /\ sys.buyEntryWindowStartTs # NULL
  /\ sys.lastTick.ts - sys.buyEntryWindowStartTs >= WINDOW_MS
  /\ sys.savedBUYLTP # sys.lastTick.ltp
  /\ sys.buyEntryTrigger = sys.savedBUYLTP + HALF

\* C33: openPosition(side, qty, price) adds qty to positionQty, makes avgPrice
\* the quantity-weighted mean (avgPrice * oldQty + price * qty) / newQty,
\* sets positionSide to LONG for BUY and SHORT for SELL, whatever side was
\* held before, and appends exactly one OPEN trade.
C33_Step ==
  lastOp'.op = "openPosition" =>
    LET c == sys'.pnlCalls[1]
        newQty == sys.positionQty + c.qty
    IN  /\ Len(sys'.pnlCalls) = 1
        /\ c.qty = lastOp'.arg
        /\ sys'.positionQty = newQty
        /\ RMulInt(sys'.avgPrice, newQty) =
             RAdd(RMulInt(sys.avgPrice, sys.positionQty), RInt(c.price * c.qty))
        /\ sys'.positionSide = (IF c.side = "BUY" THEN "LONG" ELSE "SHORT")
        /\ Len(sys'.trades) = Len(sys.trades) + 1
        /\ SubSeq(sys'.trades, 1, Len(sys.trades)) = sys.trades
        /\ LET tr == sys'.trades[Len(sys'.trades)]
           IN  /\ tr.type = "OPEN" /\ tr.side = c.side
               /\ tr.qty = c.qty /\ tr.price = c.price
        /\ sys'.tradeCount = sys.tradeCount + 1
        /\ sys'.realizedPnl = sys.realizedPnl

C33_OpenPosition == [][C33_Step]_vars

\* A SELL open on top of a LONG bought at another price: the quantity is the
\* sum, the side is SHORT.
C33_Witness ==
  /\ lastOp.op = "openPosition"
  /\ Len(sys.trades) = 2
  /\ sys.trades[1].type = "OPEN" /\ sys.trades[1].side = "BUY"
  /\ sys.trades[2].type = "OPEN" /\ sys.trades[2].side = "SELL"
  /\ sys.trades[1].price # sys.trades[2].price
  /\ sys.positionQty = sys.trades[1].qty + sys.trades[2].qty
  /\ sys.positionSide = "SHORT"

\* ------------------------------------------------------------------------
\* Startup and the state store (index.js main, resumer.js, stateStore.js)
\* ------------------------------------------------------------------------
\* config.symbol: process.env.SYMBOL || 'BTCUSDT'
SYMBOL == JsString(<<"B","T","C","U","S","D","T">>)

\* `${symbol}` in a template literal
templateString(v) ==
  CASE v.t = "string" -> v.v
    [] v.t = "undefined" -> <<"u","n","d","e","f","i","n","e","d">>
    [] v.t = "null" -> <<"n","u","l","l">>
    [] OTHER -> <<"N","a","N">>

\* path.join(DATA_DIR, `${symbol}.json`)
filePath(symbol) ==
  <<"d","a","t","a","/">> \o templateString(symbol) \o <<".","j","s","o","n">>

\* The files of the data directory the program can name.
FilePaths == {filePath(SYMBOL), filePath(JsUndefined)}

\* No file exists before the first auto-save; a file holds one snapshot.
EmptyStore == [f \in FilePaths |-> <<>>]

upsertMachineState(store, symbol, state) ==
  [store EXCEPT ![filePath(symbol)] = <<state>>]

\* The parsed snapshot, or <<>> for null.
readMachineState(store, symbol) == store[filePath(symbol)]

\* The value a function parameter receives from a call: the argument at its
\* position, undefined when the call passes fewer arguments.
parameter(args, i) == IF i <= Len(args) THEN args[i] ELSE JsUndefined

\* resumeState(fsm, sessionManager, pnlContext, symbol) called with the
\* argument list args (the objects fsm and sessionManager are w and st; the
\* third and fourth parameters are taken from args).
resumeState(w, st, args, store) ==
  LET symbol == parameter(args, 4)
      savedState == readMachineState(store, symbol)
  IN  IF savedState # <<>>
      THEN [resumed |-> TRUE,
            w |-> restoreState(w, savedState[1].fsm),
            st |-> [st EXCEPT
                      !.mode = savedState[1].session.mode,
                      !.paperCumulativePnL = savedState[1].session.paperCumulativePnL,
                      !.liveCumulativePnL = savedState[1].session.liveCumulativePnL,
                      !.totalLiveRealisedPnL = savedState[1].session.totalLiveRealisedPnL,
                      !.dailyRealisedPnL = savedState[1].session.dailyRealisedPnL,
                      !.dailyLossLimit = savedState[1].session.dailyLossLimit,
                      !.dailyStopActive = savedState[1].session.dailyStopActive,
                      !.trades = savedState[1].session.trades]]
      ELSE [resumed |-> FALSE, w |-> w, st |-> st]

\* main up to step 3: the components are created, then
\* resumeState(fsm, sessionManager, symbol).
main(store) ==
  resumeState(InitSys, InitSession,
              <<JsString(<<"f","s","m">>),
                JsString(<<"s","e","s","s","i","o","n","M","a","n","a","g","e","r">>),
                SYMBOL>>,
              store)

\* The process is started (again): shadow holds the data directory.
Startup ==
  /\ LET m == main(shadow)
     IN  /\ sys' = m.w
         /\ sm' = m.st
         /\ lastOp' = [op |-> "startup", arg |-> IF m.resumed THEN 1 ELSE 0]
  /\ UNCHANGED shadow

\* setInterval(..., 60000) of main
AutoSave ==
  /\ shadow' = upsertMachineState(shadow, SYMBOL, autoSave(sys, sm))
  /\ lastOp' = [op |-> "autoSave", arg |-> 0]
  /\ UNCHANGED <<sys, sm>>

StartupTick ==
  /\ sys.tradeCount < MaxStartupTrades
  /\ \E t \in NextTicks(sys) :
       /\ t.ts <= MaxStartupTsSteps * TsStep
       /\ sys' = marketTick(begin(sys), t)
       /\ lastOp' = [op |-> "tick", arg |-> 0]
  /\ UNCHANGED <<sm, shadow>>

StartupInit ==
  /\ sys = InitSys
  /\ sm = InitSession
  /\ shadow = EmptyStore
  /\ lastOp = [op |-> "startup", arg |-> 0]

StartupNext == StartupTick \/ BuySignal \/ SellSignal \/ AutoSave \/ Startup

StartupSpec == StartupInit /\ [][StartupNext]_vars

\* C34: when the periodic auto-save has persisted a snapshot for the
\* configured symbol, the next startup restores the FSM state and the session
\* state from that snapshot (before any tick is processed).
C34_Step ==
  (lastOp'.op = "startup" /\ shadow[filePath(SYMBOL)] # <<>>) =>
    LET saved == shadow[filePath(SYMBOL)][1]
    IN  /\ getState(sys') = saved.fsm
        /\ sessionGetState(sm') = saved.session

C34_StartupRestores == [][C34_Step]_vars

\* C35: whenever a LONG is open the long side is in PROFIT_WINDOW, and
\* whenever a SHORT is open the short side is in PROFIT_WINDOW (so that the
\* stop of an open position is evaluated on every tick).
C35_OpenMeansProfitWindow ==
  /\ longIsOpen(sys) => sys.buyState = "BUYPROFIT_WINDOW"
  /\ shortIsOpen(sys) => sys.sellState = "SELLPROFIT_WINDOW"

\* C36: whenever a side is in WAIT_WINDOW the wait-window record belongs to
\* it: waitWindowSource names that side's caller window and waitWindowStartTs
\* and waitWindowDurationMs are set (so two sides in WAIT_WINDOW at once would
\* each need the one record).
C36_RecordSet ==
  /\ sys.waitWindowStartTs # NULL
  /\ sys.waitWindowDurationMs # NULL
  /\ sys.waitWindowDurationMs > 0

C36_WaitRecordOwned ==
  /\ sys.buyState = "WAIT_WINDOW" =>
       /\ sys.waitWindowSource \in {"BUYENTRY_WINDOW", "BUYPROFIT_WINDOW"}
       /\ C36_RecordSet
  /\ sys.sellState = "WAIT_WINDOW" =>
       /\ sys.waitWindowSource \in {"SELLENTRY_WINDOW", "SELLPROFIT_WINDOW"}
       /\ C36_RecordSet

\* C37: the quantity held by the P&L context equals the number of positions
\* the FSM holds: positionQty = (1 if the LONG is open) + (1 if the SHORT is
\* open), in every reachable state.
C37_FsmHeld ==
  (IF longIsOpen(sys) THEN 1 ELSE 0) + (IF shortIsOpen(sys) THEN 1 ELSE 0)

C37_QuantityMatchesFsm == sys.positionQty = C37_FsmHeld

\* C38: every automated close is a loss of at least one price unit (1.0, two
\* steps of 0.5): a LONG closed on a stop hit is closed at most at its entry
\* price minus 1.0, a SHORT at least at its entry price plus 1.0.
C38_Step ==
  lastOp'.op = "tick" =>
    /\ \A i \in DOMAIN sys'.orders :
         (IsLongCloseOrder(sys'.orders[i])
            /\ sys'.orders[i].reason = "BUYPROFIT_STOP_HIT")
           => sys'.orders[i].price <= sys.longPosition.entryPrice - 2 * HALF
    /\ \A i \in DOMAIN sys'.orders :
         (IsShortCloseOrder(sys'.orders[i])
            /\ sys'.orders[i].reason = "SELLPROFIT_STOP_HIT")
           => sys'.orders[i].price >= sys.shortPosition.entryPrice + 2 * HALF

C38_StopCloseIsLoss == [][C38_Step]_vars

\* C39: no side is stuck ignoring ticks: a side in SIGNAL has its
\* signal-first-tick flag set and a side in ENTRY_WINDOW has its
\* entry-first-tick flag set, in every reachable state.
C39_FirstTickArmed ==
  /\ sys.buyState = "BUYSIGNAL" => sys.buySignalFirstTickPending
  /\ sys.sellState = "SELLSIGNAL" => sys.sellSignalFirstTickPending
  /\ sys.buyState = "BUYENTRY_WINDOW" => sys.buyEntryFirstTickPending
  /\ sys.sellState = "SELLENTRY_WINDOW" => sys.sellEntryFirstTickPending

\* A tick has resolved a wait window back into the SELL entry window (the
\* tick is a full window later than the latch) and a BUY signal has then put
\* the BUY side in SIGNAL.
C39_Witness ==
  /\ lastOp.op = "buy"
  /\ sys.sellState = "SELLENTRY_WINDOW"
  /\ sys.sellEntryFirstTickPending
  /\ sys.lastTick.ts >= sys.sellEntryWindowStartTs + WINDOW_MS
  /\ sys.buyState = "BUYSIGNAL"
  /\ sys.buySignalFirstTickPending

\* C40: in every session state reached through updatePaperPnL, updateLivePnL,
\* resetDailyStats and addTrade, mode = LIVE implies liveCumulativePnL >= 0
\* and paperCumulativePnL > 0, and paperCumulativePnL does not change in a
\* step taken while the mode is LIVE.
C40_LiveSound(st) ==
  st.mode = "LIVE" => (st.liveCumulativePnL >= 0 /\ st.paperCumulativePnL > 0)

C40_Step ==
  /\ C40_LiveSound(sm)
  /\ C40_LiveSound(sm')
  /\ sm.mode = "LIVE" => sm'.paperCumulativePnL = sm.paperCumulativePnL

C40_LiveModeSound == [][C40_Step]_vars

\* updatePaperPnL has been called with a non-zero amount while the session
\* was LIVE (the live P&L has already moved since the gate opened).
C40_Witness ==
  /\ lastOp.op = "updatePaperPnL"
  /\ lastOp.arg # 0
  /\ sm.mode = "LIVE"
  /\ sm.liveCumulativePnL > 0

====
